---- MODULE Spec2Model ----
(***************************************************************************)
(* State-machine model of the SUEF training pipeline:                      *)
(*   - main / train_and_val of train_ddp.py (process spawn, epoch loop,    *)
(*     master-only validation and checkpointing, end-of-epoch barrier and  *)
(*     broadcast of the validation loss to the scheduler);                 *)
(*   - AverageMeterDDP and DistributedWeightedSampler of                   *)
(*     utils/ddp_utils.py;                                                 *)
(*   - the sequence-length transforms of data/data_augmentations.py.       *)
(* Each part has its own specification; the variables of the other parts   *)
(* stay at their idle value.                                               *)
(***************************************************************************)
EXTENDS Integers, Sequences, FiniteSets, TLC

\* ------------------------------------------------------------------ bounds
\* largest torch.cuda.device_count() explored (world_size)
MaxWorld == 2
\* cfg.training.epochs of the explored runs
MaxEpochs == 11
\* cfg.training.epochs of the explored runs of several processes that share
\* no process group (performance.ddp disabled)
MaxSoloEpochs == 1
\* validation loss values are drawn from 0..MaxLoss
MaxLoss == 1
\* validation R2 values are drawn from 0..MaxR2
MaxR2 == 1

\* update calls made on one AverageMeterDDP
MaxUpdates == 3
\* values passed to AverageMeterDDP.update are drawn from 0..MaxMeterVal
MaxMeterVal == 1
\* largest n_classes of an AverageMeterDDP used without a process group
MaxClasses == 2
\* reset calls made on one AverageMeterDDP
MaxResets == 1

\* largest dataset handed to DistributedWeightedSampler
MaxDataset == 3
\* largest epoch set on the sampler with set_epoch
MaxSamplerEpoch == 1
\* longest input video (frames) of the sequence-length transforms
MaxLen == 3
\* largest transforms.target_length
MaxTarget == 4
\* transforms applied in a row to one video
MaxOps == 2
\* longest video handed to t_crop_rwave
MaxRwaveLen == 4
\* largest transforms.target_fphb
MaxFphb == 3
\* latest r-wave timestamp, in quarters of a second
MaxTicks == 4
\* largest frame rate (frames per second)
MaxFps == 4
\* most backbones of a multi-stream model, and most inputs of a forward
MaxStreams == 3
\* largest batch handed to forward
MaxBatch == 3
\* longest video handed to transform_size, and largest target_length and
\* target_fphb there
MaxSizeLen == 2
\* most files in the image directory
MaxFiles == 2
\* most rows of the target table
MaxRows == 2
\* longest identifier
MaxUidLen == 1
\* largest side of the rectangle of the local augmentations
MaxBox == 1

\* most epochs of a run whose collectives are followed
MaxGroupEpochs == 2
\* most batches of the training and of the validation loader
MaxBatches == 2

\* ------------------------------------------------------- program constants
\* "i % 10 == 0": validation runs every tenth epoch
ValEvery == 10
\* number of values of np.uint8
UInt8Range == 256
\* "img / 255.": floats are numerators over 255
FloatUnit == 255
\* floats (IEEE 754 binary64) have 53 bits of mantissa
MantissaBits == 53
\* digits of long numbers: LimbBits bits each
LimbBits == 15
Limb == 32768
\* r-wave timestamps are in milliseconds: "/ 1000"
MsPerSecond == 1000

Slots == 0 .. (MaxWorld - 1)
LossVals == 0 .. MaxLoss
R2Vals == 0 .. MaxR2

\* Python's None, and a present value, for max_val_r2 and val_loss_mean
None == << >>
Some(v) == << v >>

VARIABLES
  cfg,        \* the hydra configuration handed to main
  main,       \* main(): pc, loop variable rank, join index, dataset builds
  processes,  \* main's list "processes": the slots started, in order
  proc,       \* per spawned process: the locals of train_and_val
  pg_joined,  \* slots that have called init_process_group
  bcast_val,  \* the tensor rank 0 handed to the pending dist.broadcast
  ckpt_dir,   \* whether cfg.training.checkpoint_save_path exists
  sent        \* values rank 0 handed to dist.broadcast, one per epoch

tvars == << cfg, main, processes, proc, pg_joined, bcast_val, ckpt_dir, sent >>

VARIABLES
  mcfg,       \* AverageMeterDDP runs: process group active?, its size, n_classes
  meter,      \* per process: the AverageMeterDDP object
  mproc,      \* per process: position in update, t_val, and what was passed
  reduce_in   \* per process: the tensor it contributed to dist.all_reduce

mvars == << mcfg, meter, mproc, reduce_in >>

VARIABLES
  scfg,       \* sampler runs: dataset length, group size, rank, replacement
  sampler,    \* the DistributedWeightedSampler object
  drawn       \* the last __iter__: the shard of the process and the result

svars == << scfg, sampler, drawn >>

VARIABLES
  tcfg,       \* transforms configuration: target_length and flags
  dtype,      \* the element type of the array img
  orig,       \* the video handed to the first transform
  img,        \* the video as transformed so far
  ops         \* the transforms applied, in order

lvars == << tcfg, dtype, orig, img, ops >>

VARIABLES
  rin,        \* the arguments of a t_crop_rwave call
  rout        \* its outcome

rvars == << rin, rout >>

VARIABLES
  net, \* the multi-stream module
  fin, \* the inputs of a forward call
  fout  \* its outcome

nvars == << net, fin, fout >>

VARIABLES
  zin, \* the arguments and configuration of a transform_size call
  zout  \* its outcome

zvars == << zin, zout >>

VARIABLES
  dsin, \* the image directory as os.walk lists it, and uid_len
  dstab, \* the target table: rows of us_id and target
  ds, \* the NPYDataset object
  got  \* the result of the last call on it

dvars == << dsin, dstab, ds, got >>

VARIABLES
  vin, \* the arguments and flags of a transform_values call
  vout  \* its state: the caller's array, img, the position

uvars == << vin, vout >>

VARIABLES
  win, \* a transform_size call as far as the resize: flags, length, rates
  wout  \* its state: curr_fphb, new_length, the length handed to t_resize

wvars == << win, wout >>

VARIABLES
  ccfg, \* a run of a group: world size, epochs, scheduler, batches per loader
  cproc  \* per rank: position in train_and_val and the collectives entered

cvars == << ccfg, cproc >>

\* the idle value of the variables of a part that a specification leaves out
Idle == << >>

TrainIdle ==
  /\ cfg = Idle /\ main = Idle /\ processes = Idle /\ proc = Idle
  /\ pg_joined = Idle /\ bcast_val = Idle /\ ckpt_dir = Idle /\ sent = Idle

MeterIdle == mcfg = Idle /\ meter = Idle /\ mproc = Idle /\ reduce_in = Idle

SamplerIdle == scfg = Idle /\ sampler = Idle /\ drawn = Idle

TransformIdle ==
  tcfg = Idle /\ dtype = Idle /\ orig = Idle /\ img = Idle /\ ops = Idle

RwaveIdle == rin = Idle /\ rout = Idle

StreamIdle == net = Idle /\ fin = Idle /\ fout = Idle

SizeIdle == zin = Idle /\ zout = Idle

DatasetIdle == dsin = Idle /\ dstab = Idle /\ ds = Idle /\ got = Idle

ValuesIdle == vin = Idle /\ vout = Idle

LengthIdle == win = Idle /\ wout = Idle

CollectiveIdle == ccfg = Idle /\ cproc = Idle

\* an action of one part leaves the variables of the other parts alone
TrainOnly == UNCHANGED << mvars, svars, lvars, rvars, nvars, zvars, dvars, uvars, wvars, cvars >>

MeterOnly == UNCHANGED << tvars, svars, lvars, rvars, nvars, zvars, dvars, uvars, wvars, cvars >>

SamplerOnly == UNCHANGED << tvars, mvars, lvars, rvars, nvars, zvars, dvars, uvars, wvars, cvars >>

TransformOnly == UNCHANGED << tvars, mvars, svars, rvars, nvars, zvars, dvars, uvars, wvars, cvars >>

RwaveOnly == UNCHANGED << tvars, mvars, svars, lvars, nvars, zvars, dvars, uvars, wvars, cvars >>

StreamOnly == UNCHANGED << tvars, mvars, svars, lvars, rvars, zvars, dvars, uvars, wvars, cvars >>

SizeOnly == UNCHANGED << tvars, mvars, svars, lvars, rvars, nvars, dvars, uvars, wvars, cvars >>

DatasetOnly == UNCHANGED << tvars, mvars, svars, lvars, rvars, nvars, zvars, uvars, wvars, cvars >>

ValuesOnly == UNCHANGED << tvars, mvars, svars, lvars, rvars, nvars, zvars, dvars, wvars, cvars >>

LengthOnly == UNCHANGED << tvars, mvars, svars, lvars, rvars, nvars, zvars, dvars, uvars, cvars >>

CollectiveOnly == UNCHANGED << tvars, mvars, svars, lvars, rvars, nvars, zvars, dvars, uvars, wvars >>

\* ------------------------------------------------------------ train_ddp.py

\* a process object that main has not started yet; the fields from
\* max_val_r2 on are the locals of train_and_val, the last three record the
\* calls the process made (validator.validate, save_checkpoint, os.makedirs),
\* run_id is experiment["sys/id"] (0 without experiment) and names holds every checkpoint_name the
\* process computed
NewProc ==
  [ pc |-> "unstarted", rank |-> 0, initialized |-> FALSE, i |-> 0,
    val_loss_mean |-> None, val_r2 |-> None, max_val_r2 |-> None,
    val_loss_tensor |-> None, experiment |-> "unset", sched |-> << >>,
    ncoll |-> 0, val_log |-> << >>, saved |-> {}, made_dir |-> FALSE,
    run_id |-> 0, names |-> {} ]

\* experiment["sys/id"] of the experiment that process p creates: every
\* experiment gets an identifier of its own, which it keeps
sys_id(p) == p + 1

\* cfg.training.checkpoint_save_path, cfg.model.name, cfg.data.type and
\* cfg.data.name (the view)
checkpoint_save_path == "checkpoints/"
model_name == "resnet"
data_type == "img"
data_name == "plax"

\* the configurations explored: processes that share no group run
\* independently of each other, so runs of several of them are kept short
Configs ==
  { c \in [ world_size : 1 .. MaxWorld, ddp : BOOLEAN, use_scheduler : BOOLEAN,
            logging_enabled : BOOLEAN, checkpointing_enabled : BOOLEAN,
            epochs : { MaxSoloEpochs, MaxEpochs } ] :
      (~ c.ddp /\ c.world_size > 1) => c.epochs = MaxSoloEpochs }

TrainInit ==
  /\ cfg \in Configs
  /\ main = [ pc |-> "create_data_sets", rank |-> 0, join |-> 1, datasets |-> 0 ]
  /\ processes = << >>
  /\ proc = [ p \in Slots |-> NewProc ]
  /\ pg_joined = {}
  /\ bcast_val = None
  /\ ckpt_dir = FALSE
  /\ sent = << >>

\* utils/ddp_utils.py
is_dist_avail_and_initialized(p) == proc[p].initialized

get_rank(p) == IF ~ is_dist_avail_and_initialized(p) THEN 0 ELSE proc[p].rank

is_master(p) == get_rank(p) = 0

Terminated(p) == proc[p].pc \in { "done", "failed" }

\* main, line 26: train_data_set, val_data_set = create_data_sets(cfg)
CreateDataSets ==
  /\ main.pc = "create_data_sets"
  /\ main' = [ main EXCEPT !.pc = "spawn", !.datasets = @ + 1 ]
  /\ UNCHANGED << cfg, processes, proc, pg_joined, bcast_val, ckpt_dir, sent >>
  /\ TrainOnly

\* mutant of SpawnRank: update_cfg never changes the rank of the copy
SpawnRankUnset == NewProc.rank

\* the rank written into the copy of the configuration of the next process
SpawnRank == main.rank

\* main, lines 31-36: one iteration of "for rank in range(cfg.world_size)"
Spawn ==
  /\ main.pc = "spawn"
  /\ main.rank < cfg.world_size
  /\ LET k == Len(processes) IN
       /\ proc' = [ proc EXCEPT ![k].pc = "start", ![k].rank = SpawnRank ]
       /\ processes' = Append(processes, k)
  /\ main' = [ main EXCEPT !.rank = @ + 1 ]
  /\ UNCHANGED << cfg, pg_joined, bcast_val, ckpt_dir, sent >>
  /\ TrainOnly

\* main, line 31 -> 37: the spawn loop is exhausted
SpawnDone ==
  /\ main.pc = "spawn"
  /\ main.rank >= cfg.world_size
  /\ main' = [ main EXCEPT !.pc = "join" ]
  /\ UNCHANGED << cfg, processes, proc, pg_joined, bcast_val, ckpt_dir, sent >>
  /\ TrainOnly

\* p.join() returns once the process has exited (normally or by an error)
JoinReturns(p) == Terminated(p)

\* main, lines 37-38: one iteration of "for p in processes: p.join()"
Join ==
  /\ main.pc = "join"
  /\ main.join <= Len(processes)
  /\ JoinReturns(processes[main.join])
  /\ main' = [ main EXCEPT !.join = @ + 1 ]
  /\ UNCHANGED << cfg, processes, proc, pg_joined, bcast_val, ckpt_dir, sent >>
  /\ TrainOnly

\* main returns
MainReturn ==
  /\ main.pc = "join"
  /\ main.join > Len(processes)
  /\ main' = [ main EXCEPT !.pc = "done" ]
  /\ UNCHANGED << cfg, processes, proc, pg_joined, bcast_val, ckpt_dir, sent >>
  /\ TrainOnly

\* train_and_val, lines 43-44: init_distributed_mode(cfg) when ddp is enabled;
\* init_process_group blocks until world_size processes have joined
InitDistributedMode(p) ==
  /\ proc[p].pc = "start"
  /\ IF cfg.ddp
       THEN /\ pg_joined' = pg_joined \cup { p }
            /\ proc' = [ proc EXCEPT ![p].pc = "init_wait" ]
       ELSE /\ proc' = [ proc EXCEPT ![p].pc = "setup" ]
            /\ UNCHANGED pg_joined
  /\ UNCHANGED << cfg, main, processes, bcast_val, ckpt_dir, sent >>
  /\ TrainOnly

InitProcessGroupReturns(p) ==
  /\ proc[p].pc = "init_wait"
  /\ Cardinality(pg_joined) = cfg.world_size
  /\ proc' = [ proc EXCEPT ![p].pc = "setup", ![p].initialized = TRUE ]
  /\ UNCHANGED << cfg, main, processes, pg_joined, bcast_val, ckpt_dir, sent >>
  /\ TrainOnly

\* train_and_val, lines 59-95: logging and checkpoint directory on the
\* master, then criterion, optimizer, scheduler, loaders, max_val_r2 = None
Setup(p) ==
  /\ proc[p].pc = "setup"
  /\ IF is_master(p)
       THEN /\ proc' = [ proc EXCEPT
                 ![p].pc = "loop",
                 ![p].experiment = IF cfg.logging_enabled THEN "run" ELSE "None",
                 ![p].run_id = IF cfg.logging_enabled THEN sys_id(p) ELSE 0,
                 ![p].made_dir = ~ ckpt_dir ]
            /\ ckpt_dir' = TRUE
       ELSE /\ proc' = [ proc EXCEPT ![p].pc = "loop" ]
            /\ UNCHANGED ckpt_dir
  /\ UNCHANGED << cfg, main, processes, pg_joined, bcast_val, sent >>
  /\ TrainOnly

\* line 98/100: the loop test passes and trainer.train_epoch is entered
TrainStart(p) ==
  /\ proc[p].pc = "loop"
  /\ proc[p].i < cfg.epochs
  /\ proc' = [ proc EXCEPT ![p].pc = "train" ]
  /\ UNCHANGED << cfg, main, processes, pg_joined, bcast_val, ckpt_dir, sent >>
  /\ TrainOnly

\* mutant of LocalTensor: the master builds the tensor of zeros as well
LocalTensorZeros(pr) == Some(pr.i - pr.i)

\* lines 132-134: the tensor a process hands to dist.broadcast; pr is the
\* record of the locals of the process
LocalTensor(pr) ==
  IF (~ pr.initialized) \/ pr.rank = 0 THEN pr.val_loss_mean ELSE Some(0)

\* lines 127-134, up to the first call that blocks or raises. With a group
\* the process enters dist.barrier(). With none the barrier is skipped:
\* with a scheduler dist.broadcast raises (no default process group) and the
\* process exits with an error, without one the next epoch begins
EndOfEpoch(pr) ==
  IF pr.initialized
    THEN [ pr EXCEPT !.pc = "barrier", !.ncoll = @ + 1 ]
    ELSE IF cfg.use_scheduler
      THEN [ pr EXCEPT !.pc = "failed", !.val_loss_tensor = LocalTensor(pr) ]
      ELSE [ pr EXCEPT !.pc = "loop", !.i = @ + 1 ]

\* mutant of ValidationDue: the is_master() test is missing
ValidationDueAnyRank(p) == proc[p].i % ValEvery = 0

\* line 108: "if is_master() and i % 10 == 0"
ValidationDue(p) == is_master(p) /\ proc[p].i % ValEvery = 0

\* lines 100-108 and, when no validation is due, 127-134: train_epoch
\* returns, train logging, the validation test
TrainEnd(p) ==
  /\ proc[p].pc = "train"
  /\ IF ValidationDue(p)
       THEN proc' = [ proc EXCEPT ![p].pc = "validate" ]
       ELSE proc' = [ proc EXCEPT ![p] = EndOfEpoch(proc[p]) ]
  /\ UNCHANGED << cfg, main, processes, pg_joined, bcast_val, ckpt_dir, sent >>
  /\ TrainOnly

\* mutant of IsNewBest: >= in place of >
IsNewBestOrEqual(max_val_r2, val_r2) ==
  max_val_r2 = None \/ val_r2[1] >= max_val_r2[1]

\* line 121: "if max_val_r2 is None or val_r2 > max_val_r2"
IsNewBest(max_val_r2, val_r2) ==
  max_val_r2 = None \/ val_r2[1] > max_val_r2[1]

\* line 109: val_loss_mean, val_r2 = validator.validate(model, val_data_loader, i)
Validated(pr, loss, r2) ==
  [ pr EXCEPT !.val_loss_mean = Some(loss), !.val_r2 = Some(r2),
              !.val_log = Append(@, [ epoch |-> pr.i, r2 |-> r2, loss |-> loss ]) ]

\* mutant of CheckpointName: the epoch is part of the name
CheckpointNameOfEpoch(pr) ==
  << checkpoint_save_path, model_name, "_", data_type, "_", data_name >>
  \o (IF cfg.logging_enabled THEN << "_exp_", pr.run_id >> ELSE << "_test" >>)
  \o << "_", pr.i, ".pth" >>

\* lines 113-119: checkpoint_name, the strings concatenated in order
CheckpointName(pr) ==
  IF cfg.logging_enabled
    THEN << checkpoint_save_path, model_name, "_", data_type, "_",
            data_name, "_exp_", pr.run_id, ".pth" >>
    ELSE << checkpoint_save_path, model_name, "_", data_type, "_",
            data_name, "_test", ".pth" >>

\* lines 112-124: checkpoint name, validation logging, best-R2 bookkeeping
\* and save_checkpoint
Checkpointed(pr) ==
  LET named == [ pr EXCEPT !.names = @ \cup { CheckpointName(pr) } ]
  IN IF IsNewBest(pr.max_val_r2, pr.val_r2)
       THEN [ named EXCEPT !.max_val_r2 = pr.val_r2,
                           !.saved = IF cfg.checkpointing_enabled
                                       THEN @ \cup { pr.i } ELSE @ ]
       ELSE named

\* lines 109-134: the validation block of the master, then the end of epoch
Validate(p) ==
  /\ proc[p].pc = "validate"
  /\ \E loss \in LossVals, r2 \in R2Vals :
       proc' = [ proc EXCEPT
                 ![p] = EndOfEpoch(Checkpointed(Validated(proc[p], loss, r2))) ]
  /\ UNCHANGED << cfg, main, processes, pg_joined, bcast_val, ckpt_dir, sent >>
  /\ TrainOnly

\* mutant of AllArrived: a collective that does not wait for a process that
\* has exited
ArrivedOrExited(k) ==
  \A q \in 0 .. (cfg.world_size - 1) : Terminated(q) \/ proc[q].ncoll >= k

\* mutant of AllArrived: a collective that returns at once
NoWait(k) == TRUE

\* a blocking collective returns once every rank of the group has entered
\* its k-th collective
AllArrived(k) == \A q \in 0 .. (cfg.world_size - 1) : proc[q].ncoll >= k

\* dist.barrier() returns; lines 130-135: with a scheduler the process
\* builds val_loss_tensor and enters dist.broadcast(val_loss_tensor, src=0);
\* a master that never validated has no val_loss_mean to read and fails
BarrierReturns(p) ==
  /\ proc[p].pc = "barrier"
  /\ AllArrived(proc[p].ncoll)
  /\ IF ~ cfg.use_scheduler
       THEN /\ proc' = [ proc EXCEPT ![p].pc = "loop", ![p].i = @ + 1 ]
            /\ UNCHANGED << bcast_val, sent >>
       ELSE IF LocalTensor(proc[p]) = None
         THEN /\ proc' = [ proc EXCEPT ![p].pc = "failed" ]
              /\ UNCHANGED << bcast_val, sent >>
         ELSE /\ proc' = [ proc EXCEPT ![p].pc = "bcast", ![p].ncoll = @ + 1,
                                       ![p].val_loss_tensor = LocalTensor(proc[p]) ]
              /\ IF proc[p].rank = 0
                   THEN /\ bcast_val' = LocalTensor(proc[p])
                        /\ sent' = Append(sent, LocalTensor(proc[p])[1])
                   ELSE UNCHANGED << bcast_val, sent >>
  /\ UNCHANGED << cfg, main, processes, pg_joined, ckpt_dir >>
  /\ TrainOnly

\* mutant of BroadcastRecv: the broadcast leaves the local tensor as it was
BroadcastRecvLocal(p) == proc[p].val_loss_tensor

\* what val_loss_tensor holds when dist.broadcast(val_loss_tensor, src=0)
\* returns: the tensor of rank 0
BroadcastRecv(p) == bcast_val

\* lines 135-136: dist.broadcast returns, scheduler.step(val_loss_tensor);
\* the scheduler state is the sequence of values it was stepped with
BroadcastReturns(p) ==
  /\ proc[p].pc = "bcast"
  /\ AllArrived(proc[p].ncoll)
  /\ proc' = [ proc EXCEPT ![p].pc = "loop", ![p].i = @ + 1,
                           ![p].val_loss_tensor = BroadcastRecv(p),
                           ![p].sched = Append(@, BroadcastRecv(p)[1]) ]
  /\ UNCHANGED << cfg, main, processes, pg_joined, bcast_val, ckpt_dir, sent >>
  /\ TrainOnly

\* line 137: cleanup() = dist.destroy_process_group(), which raises when no
\* process group was initialized
Cleanup(p) ==
  /\ proc[p].pc = "loop"
  /\ proc[p].i >= cfg.epochs
  /\ IF is_dist_avail_and_initialized(p)
       THEN proc' = [ proc EXCEPT ![p].pc = "done", ![p].initialized = FALSE ]
       ELSE proc' = [ proc EXCEPT ![p].pc = "failed" ]
  /\ UNCHANGED << cfg, main, processes, pg_joined, bcast_val, ckpt_dir, sent >>
  /\ TrainOnly

\* the runs in which a worker may fail: a group of at least two processes
CrashConfigs ==
  { c \in [ world_size : 2 .. MaxWorld, ddp : { TRUE }, use_scheduler : BOOLEAN,
            logging_enabled : { FALSE }, checkpointing_enabled : { FALSE },
            epochs : 1 .. MaxGroupEpochs ] : TRUE }

CrashInit ==
  /\ cfg \in CrashConfigs
  /\ main = [ pc |-> "create_data_sets", rank |-> 0, join |-> 1, datasets |-> 0 ]
  /\ processes = << >>
  /\ proc = [ p \in Slots |-> NewProc ]
  /\ pg_joined = {}
  /\ bcast_val = None
  /\ ckpt_dir = FALSE
  /\ sent = << >>

\* an uncaught error in the code train_and_val runs between two collectives
\* (init_distributed_mode, the setup, train_epoch, validate, cleanup) ends
\* process p; nothing tells the other processes or main. One process of a
\* run fails
Crash(p) ==
  /\ \A q \in Slots : proc[q].pc # "failed"
  /\ proc[p].pc \in { "start", "setup", "loop", "train", "validate" }
  /\ proc' = [ proc EXCEPT ![p].pc = "failed" ]
  /\ UNCHANGED << cfg, main, processes, pg_joined, bcast_val, ckpt_dir, sent >>
  /\ TrainOnly

TrainNext ==
  \/ CreateDataSets
  \/ Spawn
  \/ SpawnDone
  \/ Join
  \/ MainReturn
  \/ \E p \in Slots :
       \/ InitDistributedMode(p)
       \/ InitProcessGroupReturns(p)
       \/ Setup(p)
       \/ TrainStart(p)
       \/ TrainEnd(p)
       \/ Validate(p)
       \/ BarrierReturns(p)
       \/ BroadcastReturns(p)
       \/ Cleanup(p)


\* ------------------------------------------ utils/ddp_utils.py: the meter

\* a / b as an exact fraction in lowest terms (numpy's float division)
RECURSIVE GCD(_, _)
GCD(a, b) == IF b = 0 THEN a ELSE GCD(b, a % b)

Frac(a, b) == IF a = 0 THEN << 0, 1 >> ELSE << a \div GCD(a, b), b \div GCD(a, b) >>

\* np.zeros(n)
Zeros(n) == [ i \in 1 .. n |-> 0 ]

VecAdd(u, v) == [ i \in DOMAIN u |-> u[i] + v[i] ]

MeterVecs(n) == [ 1 .. n -> 0 .. MaxMeterVal ]

\* the processes of a run: the ranks of the group, or the one process
MeterProcs == 0 .. (mcfg.world_size - 1)

\* mutant of MeterStep: the counter always advances by one
MeterStepOne(active, world_size) == world_size - world_size + 1

\* __init__, lines 17-20: the step of the sample counter
MeterStep(active, world_size) == IF active THEN world_size ELSE 1

\* __init__, lines 11-20
AverageMeterDDP(n_classes, active, world_size) ==
  [ n_classes |-> n_classes, val |-> Zeros(n_classes),
    avg |-> [ i \in 1 .. n_classes |-> Frac(0, 1) ],
    sum |-> Zeros(n_classes), count |-> 0,
    step |-> MeterStep(active, world_size) ]

\* reset, lines 22-26
reset(m) ==
  [ m EXCEPT !.val = Zeros(m.n_classes),
             !.avg = [ i \in 1 .. m.n_classes |-> Frac(0, 1) ],
             !.sum = Zeros(m.n_classes), !.count = 0 ]

\* mutant of Fold: the sum is overwritten instead of accumulated
FoldOverwrite(m, val) ==
  [ m EXCEPT !.count = m.count + m.step,
             !.val = [ i \in 1 .. m.n_classes |-> val[i] ],
             !.sum = [ i \in 1 .. m.n_classes |-> val[i] ],
             !.avg = [ i \in 1 .. m.n_classes |-> Frac(val[i], m.count + m.step) ] ]

\* update, lines 34-38: the (reduced) value is folded into the totals
Fold(m, val) ==
  [ m EXCEPT !.count = m.count + m.step,
             !.val = [ i \in 1 .. m.n_classes |-> val[i] ],
             !.sum = [ i \in 1 .. m.n_classes |-> m.sum[i] + val[i] ],
             !.avg = [ i \in 1 .. m.n_classes |->
                         Frac(m.sum[i] + val[i], m.count + m.step) ] ]

\* the explored runs: one meter with no process group, or one meter of
\* the default width on every rank of an active group
MeterConfigs ==
  { c \in [ active : BOOLEAN, world_size : 1 .. MaxWorld, n_classes : 1 .. MaxClasses ] :
      IF c.active THEN c.n_classes = 1 ELSE c.world_size = 1 }

\* what a process passed to update: calls in all, and since the last reset
\* n calls with the values summing to psum, the last one being last
NewMeterProc(n_classes) ==
  [ pc |-> "idle", t_val |-> Zeros(n_classes), ncoll |-> 0, calls |-> 0,
    resets |-> 0, n |-> 0, psum |-> Zeros(n_classes), last |-> Zeros(n_classes) ]

MeterInit ==
  /\ mcfg \in MeterConfigs
  /\ meter = [ p \in MeterProcs |->
                 AverageMeterDDP(mcfg.n_classes, mcfg.active, mcfg.world_size) ]
  /\ mproc = [ p \in MeterProcs |-> NewMeterProc(mcfg.n_classes) ]
  /\ reduce_in = [ p \in MeterProcs |-> Zeros(mcfg.n_classes) ]

\* update(val), lines 28-38: with a group the process builds t_val and
\* enters dist.barrier(); with none the value is folded in at once
MeterUpdate(p, val) ==
  /\ p \in MeterProcs
  /\ mproc[p].pc = "idle"
  /\ mproc[p].calls < MaxUpdates
  /\ IF mcfg.active
       THEN /\ mproc' = [ mproc EXCEPT ![p].pc = "barrier", ![p].t_val = val,
                            ![p].ncoll = @ + 1, ![p].calls = @ + 1, ![p].n = @ + 1,
                            ![p].psum = VecAdd(@, val), ![p].last = val ]
            /\ UNCHANGED meter
       ELSE /\ mproc' = [ mproc EXCEPT ![p].calls = @ + 1, ![p].n = @ + 1,
                            ![p].psum = VecAdd(@, val), ![p].last = val ]
            /\ meter' = [ meter EXCEPT ![p] = Fold(@, val) ]
  /\ UNCHANGED << mcfg, reduce_in >>
  /\ MeterOnly

\* a collective of the meter returns once every rank entered its k-th one
MeterArrived(k) == \A q \in MeterProcs : mproc[q].ncoll >= k

\* lines 31-32: dist.barrier() returns and dist.all_reduce(t_val) is entered
MeterBarrierReturns(p) ==
  /\ p \in MeterProcs
  /\ mproc[p].pc = "barrier"
  /\ MeterArrived(mproc[p].ncoll)
  /\ mproc' = [ mproc EXCEPT ![p].pc = "all_reduce", ![p].ncoll = @ + 1 ]
  /\ reduce_in' = [ reduce_in EXCEPT ![p] = mproc[p].t_val ]
  /\ UNCHANGED << mcfg, meter >>
  /\ MeterOnly

RECURSIVE SumOver(_, _)
SumOver(S, n) ==
  IF S = {} THEN Zeros(n)
  ELSE LET q == CHOOSE x \in S : TRUE
       IN VecAdd(reduce_in[q], SumOver(S \ { q }, n))

\* mutant of AllReduced: the tensor comes back as the process passed it
AllReducedLocal(p) == reduce_in[p]

\* dist.all_reduce(t_val): the element-wise sum over the ranks of the group
AllReduced(p) == SumOver(MeterProcs, mcfg.n_classes)

\* lines 32-38: dist.all_reduce returns and the reduced value is folded in
MeterAllReduceReturns(p) ==
  /\ p \in MeterProcs
  /\ mproc[p].pc = "all_reduce"
  /\ MeterArrived(mproc[p].ncoll)
  /\ mproc' = [ mproc EXCEPT ![p].pc = "idle", ![p].t_val = AllReduced(p) ]
  /\ meter' = [ meter EXCEPT ![p] = Fold(@, AllReduced(p)) ]
  /\ UNCHANGED << mcfg, reduce_in >>
  /\ MeterOnly

\* reset(), lines 22-26; explored on the meter of a run with no group
MeterReset(p) ==
  /\ p \in MeterProcs
  /\ ~ mcfg.active
  /\ mproc[p].pc = "idle"
  /\ mproc[p].resets < MaxResets
  /\ meter' = [ meter EXCEPT ![p] = reset(@) ]
  /\ mproc' = [ mproc EXCEPT ![p].resets = @ + 1, ![p].n = 0,
                  ![p].psum = Zeros(mcfg.n_classes), ![p].last = Zeros(mcfg.n_classes) ]
  /\ UNCHANGED << mcfg, reduce_in >>
  /\ MeterOnly

\* an update call with any vector of n_classes values
MeterUpdateAny(p) ==
  \E n \in 1 .. MaxClasses :
    /\ n = mcfg.n_classes
    /\ \E val \in MeterVecs(n) : MeterUpdate(p, val)

MeterNext ==
  \E p \in Slots :
    \/ MeterUpdateAny(p)
    \/ MeterBarrierReturns(p)
    \/ MeterAllReduceReturns(p)
    \/ MeterReset(p)

\* ---------------------------------------- utils/ddp_utils.py: the sampler

\* ceil(a / b)
CeilDiv(a, b) == (a + b - 1) \div b

\* torch's DistributedSampler.__init__ (line 112): the per-process sample
\* count of a dataset of n items over num_replicas processes
DistNumSamples(n, num_replicas) == CeilDiv(n, num_replicas)

\* the orders in which a shuffle can put the indices 0..n-1
Perms(n) ==
  { f \in [ 1 .. n -> 0 .. (n - 1) ] : \A a, b \in 1 .. n : f[a] = f[b] => a = b }

\* torch's DistributedSampler.__iter__ (line 122): the shuffled indices are
\* padded with their own head to total_size and every num_replicas-th one,
\* starting at rank, goes to this process
DistShard(perm, n, num_replicas, rank) ==
  LET num_samples == DistNumSamples(n, num_replicas)
      padded == [ k \in 1 .. (num_samples * num_replicas) |-> perm[((k - 1) % n) + 1] ]
  IN [ j \in 1 .. num_samples |-> padded[rank + (j - 1) * num_replicas + 1] ]

\* mutant of Picked: the positions drawn are returned as they are
PickedPositions(shard, weight_indices) == weight_indices

\* line 132: indices = torch.tensor(indices)[weight_indices]
Picked(shard, weight_indices) ==
  [ j \in 1 .. Len(weight_indices) |-> shard[weight_indices[j] + 1] ]

\* __len__, lines 137-138
SamplerLen == sampler.num_samples

SamplerConfigs ==
  { c \in [ n : 1 .. MaxDataset, num_replicas : 1 .. MaxWorld, rank : Slots,
            replacement : BOOLEAN ] : c.rank < c.num_replicas }

SamplerInit ==
  /\ scfg \in SamplerConfigs
  /\ sampler = [ state |-> "new", num_samples |-> 0, epoch |-> 0 ]
  /\ drawn = [ shard |-> << >>, out |-> << >>, live |-> FALSE ]

\* __init__, lines 111-119: the DistributedSampler is set up, then
\* "assert replacement"
SamplerConstruct ==
  /\ sampler.state = "new"
  /\ sampler' = [ state |-> IF scfg.replacement THEN "built" ELSE "AssertionError",
                  num_samples |-> DistNumSamples(scfg.n, scfg.num_replicas),
                  epoch |-> 0 ]
  /\ UNCHANGED << scfg, drawn >>
  /\ SamplerOnly

\* DistributedSampler.set_epoch, called between two passes over the data
SamplerSetEpoch ==
  /\ sampler.state = "built"
  /\ ~ drawn.live
  /\ sampler.epoch < MaxSamplerEpoch
  /\ sampler' = [ sampler EXCEPT !.epoch = @ + 1 ]
  /\ UNCHANGED << scfg, drawn >>
  /\ SamplerOnly

\* line 134: the iterator handed out by __iter__ is used up and dropped
SamplerIterDone ==
  /\ drawn.live
  /\ drawn' = [ shard |-> << >>, out |-> << >>, live |-> FALSE ]
  /\ UNCHANGED << scfg, sampler >>
  /\ SamplerOnly

\* __iter__, lines 121-135: the shard of the process, then num_samples
\* draws with replacement among its positions (every weight is 1.0, so
\* torch.multinomial can return any of them)
SamplerIter ==
  /\ sampler.state = "built"
  /\ ~ drawn.live
  /\ \E n \in 1 .. MaxDataset, w \in 1 .. MaxWorld :
       /\ n = scfg.n /\ w = scfg.num_replicas
       /\ \E perm \in Perms(n) :
            \E weight_indices \in [ 1 .. DistNumSamples(n, w) -> 0 .. (DistNumSamples(n, w) - 1) ] :
              LET shard == DistShard(perm, n, w, scfg.rank)
              IN drawn' = [ shard |-> shard,
                            out |-> Picked(shard, weight_indices),
                            live |-> TRUE ]
  /\ UNCHANGED << scfg, sampler >>
  /\ SamplerOnly

SamplerNext ==
  \/ SamplerConstruct
  \/ SamplerSetEpoch
  \/ SamplerIter
  \/ SamplerIterDone

\* ------------------------- data/data_augmentations.py: sequence length

\* the values of a frame of an 8-bit video; a frame is one such value
Pixels == { 0, 128, 255 }

\* img.astype(np.uint8) on a video
astype_uint8(video) == [ k \in 1 .. Len(video) |-> video[k] % UInt8Range ]

\* mutant of LoopChunk: the last copy is appended whole
LoopChunkWhole(org_img, room) == org_img

\* lines 325-328: what one pass of the while loop appends, given the frames
\* still missing: the original, or its head when it does not fit
LoopChunk(org_img, room) ==
  IF Len(org_img) <= room THEN org_img ELSE SubSeq(org_img, 1, room)

\* lines 324-328: the while loop of t_loop_length
RECURSIVE LoopWhile(_, _, _)
LoopWhile(video, org_img, target_length) ==
  IF Len(video) < target_length
    THEN LoopWhile(video \o LoopChunk(org_img, target_length - Len(video)),
                   org_img, target_length)
    ELSE video

\* t_loop_length, lines 317-329
t_loop_length(video, target_length) ==
  astype_uint8(LoopWhile(video, video, target_length))

\* __init__, lines 27-32: self.black_val (-1.0 or 0.0)
black_val(normalize_input) == IF normalize_input THEN 0 - 1 ELSE 0

\* what an array of element type dt can hold after value is stored in it:
\* the value itself when dt represents it; the conversion of an
\* out-of-range float to np.uint8 is undefined, builds wrap or saturate
StoredAs(dt, value) ==
  IF dt = "uint8" /\ (value < 0 \/ value >= UInt8Range)
    THEN { value % UInt8Range, IF value < 0 THEN 0 ELSE UInt8Range - 1 }
    ELSE { value }

\* t_pad_length, lines 311-315, fill being what np.pad stored for
\* constant_values
t_pad_length(video, target_length, fill) ==
  IF target_length - Len(video) > 0
    THEN video \o [ k \in 1 .. (target_length - Len(video)) |-> fill ]
    ELSE video

\* skimage.util.crop on the sequence axis: crop_width = (before, after)
crop(video, crop_width) ==
  SubSeq(video, crop_width[1] + 1, Len(video) - crop_width[2])

\* mutant of CropWindow: the excess is cut at the start
CropWindowFromStart(length, crop_length, target_length) ==
  IF crop_length /\ length > target_length
    THEN << length - target_length, 0 >>
    ELSE << 0, 0 >>

\* mutant of CropWindow: one frame too many is cut
CropWindowOneMore(length, crop_length, target_length) ==
  IF crop_length /\ length > target_length
    THEN << 0, length - target_length + 1 >>
    ELSE << 0, 0 >>

\* lines 338-341: crop_sequence[0]
CropWindow(length, crop_length, target_length) ==
  IF crop_length /\ length > target_length
    THEN << 0, length - target_length >>
    ELSE << 0, 0 >>

\* t_crop, lines 331-342
t_crop(video, crop_length, target_length) ==
  astype_uint8(crop(video, CropWindow(Len(video), crop_length, target_length)))

Videos == UNION { [ 1 .. n -> Pixels ] : n \in 1 .. MaxLen }

TransformInit ==
  /\ tcfg \in [ target_length : 1 .. MaxTarget, crop_length : BOOLEAN,
                normalize_input : BOOLEAN ]
  /\ dtype \in { "uint8", "float64" }
  /\ orig \in Videos
  /\ img = orig
  /\ ops = << >>

\* transform_size pads last (lines 161-173): no crop or loop after a pad
Padded == \E k \in 1 .. Len(ops) : ops[k] = "pad"

\* transform_size line 171/172: img = self.t_loop_length(img)
ApplyLoop ==
  /\ Len(ops) < MaxOps
  /\ ~ Padded
  /\ img' = t_loop_length(img, tcfg.target_length)
  /\ dtype' = "uint8"
  /\ ops' = Append(ops, "loop")
  /\ UNCHANGED << tcfg, orig >>
  /\ TransformOnly

\* transform_size line 162: img = self.t_crop(img)
ApplyCrop ==
  /\ Len(ops) < MaxOps
  /\ ~ Padded
  /\ img' = t_crop(img, tcfg.crop_length, tcfg.target_length)
  /\ dtype' = "uint8"
  /\ ops' = Append(ops, "crop")
  /\ UNCHANGED << tcfg, orig >>
  /\ TransformOnly

\* transform_size line 173: img = self.t_pad_length(img)
ApplyPad ==
  /\ Len(ops) < MaxOps
  /\ \E fill \in StoredAs(dtype, black_val(tcfg.normalize_input)) :
       img' = t_pad_length(img, tcfg.target_length, fill)
  /\ ops' = Append(ops, "pad")
  /\ UNCHANGED << tcfg, dtype, orig >>
  /\ TransformOnly

TransformNext ==
  \/ ApplyLoop
  \/ ApplyCrop
  \/ ApplyPad

\* ------------------------- data/data_augmentations.py: the r-wave crop

\* lines 357-358: int((timestamp / 1000) * fps), timestamp >= 0 and fps the
\* fraction fps[1] / fps[2] > 0, computed exactly
RwaveFrame(timestamp, fps) == (timestamp * fps[1]) \div (MsPerSecond * fps[2])

\* video[start:stop] as Python slices: a negative index counts from the
\* end, both are clipped to the array, an empty range gives no frame
PyIndex(i, length) ==
  LET j == IF i < 0 THEN i + length ELSE i
  IN IF j < 0 THEN 0 ELSE IF j > length THEN length ELSE j

PySlice(video, start, stop) ==
  SubSeq(video, PyIndex(start, Len(video)) + 1, PyIndex(stop, Len(video)))

\* lines 360-362: a window ending past the video is moved back one frame
RwaveBoundary(w, length) ==
  IF w.end_frame > length
    THEN [ start_frame |-> w.start_frame - 1, end_frame |-> w.end_frame - 1 ]
    ELSE w

\* lines 363-378: one correction of the window by one frame, or the error
RwaveCorrect(w, length, target_fphb) ==
  IF (w.end_frame - w.start_frame) < target_fphb
    THEN IF w.end_frame < length
           THEN [ w EXCEPT !.end_frame = @ + 1 ]
         ELSE IF w.start_frame > 0
           THEN [ w EXCEPT !.start_frame = @ - 1 ]
         ELSE [ w EXCEPT !.raised = TRUE ]
  ELSE IF (w.end_frame - w.start_frame) > target_fphb
    THEN IF w.start_frame < (w.end_frame - 1)
           THEN [ w EXCEPT !.start_frame = @ + 1 ]
         ELSE IF w.end_frame > (w.start_frame + 1)
           THEN [ w EXCEPT !.end_frame = @ - 1 ]
         ELSE [ w EXCEPT !.raised = TRUE ]
  ELSE w

\* t_crop_rwave, lines 344-380: the outcome with the window it ended on
t_crop_rwave(video, rwaves, rwave_indexes, fps, target_fphb) ==
  IF Len(video) = target_fphb
    THEN [ kind |-> "return", sliced |-> FALSE, start_frame |-> 0,
           end_frame |-> 0, frames |-> video ]
    ELSE
      LET first == [ start_frame |-> RwaveFrame(rwaves[rwave_indexes[1] + 1], fps),
                     end_frame |-> RwaveFrame(rwaves[rwave_indexes[2] + 1], fps) ]
          moved == RwaveBoundary(first, Len(video))
          w == RwaveCorrect([ start_frame |-> moved.start_frame,
                              end_frame |-> moved.end_frame, raised |-> FALSE ],
                            Len(video), target_fphb)
      IN IF w.raised
           THEN [ kind |-> "ValueError", sliced |-> FALSE,
                  start_frame |-> w.start_frame, end_frame |-> w.end_frame,
                  frames |-> << >> ]
           ELSE [ kind |-> "return", sliced |-> TRUE,
                  start_frame |-> w.start_frame, end_frame |-> w.end_frame,
                  frames |-> PySlice(video, w.start_frame, w.end_frame) ]

\* r-wave timestamps, on a grid of a quarter of a second
Timestamps == { k * (MsPerSecond \div 4) : k \in 0 .. MaxTicks }

\* a video of length frames, each frame standing for its own index
FrameIds(length) == [ k \in 1 .. length |-> k - 1 ]

\* the arguments: the two selected r-waves are rwaves[0] and rwaves[1]
RwaveInit ==
  /\ rin \in { a \in [ length : 1 .. MaxRwaveLen, target_fphb : 1 .. MaxFphb,
                       r0 : Timestamps, r1 : Timestamps, fps : 1 .. MaxFps ] :
                 a.r0 <= a.r1 }
  /\ rout = [ kind |-> "not called" ]

\* transform_size line 169: img = self.t_crop_rwave(img, rwaves, ...)
CropRwave ==
  /\ rout.kind = "not called"
  /\ rout' = t_crop_rwave(FrameIds(rin.length), << rin.r0, rin.r1 >>,
                          << 0, 1 >>, << rin.fps, 1 >>, rin.target_fphb)
  /\ UNCHANGED rin
  /\ RwaveOnly

RwaveNext == CropRwave

\* ------------------------------------------------ models/multi_stream.py

\* a tensor is modelled by its shape, a sequence of sizes
\* torch.stack(y, dim=1) of n tensors of one shape
stack1(shape, n) == << shape[1], n >> \o SubSeq(shape, 2, Len(shape))

\* Tensor.squeeze(): every axis of size 1 is dropped
RECURSIVE squeeze(_)
squeeze(shape) ==
  IF shape = << >> THEN << >>
  ELSE IF Head(shape) = 1 THEN squeeze(Tail(shape))
  ELSE << Head(shape) >> \o squeeze(Tail(shape))

\* nn.Linear(in_features, 1) applied to a tensor: the last axis must hold
\* in_features values and is replaced by one of size 1
Linear(in_features, shape) ==
  IF Len(shape) >= 1 /\ shape[Len(shape)] = in_features
    THEN [ kind |-> "return",
           shape |-> SubSeq(shape, 1, Len(shape) - 1) \o << 1 >> ]
    ELSE [ kind |-> "RuntimeError", shape |-> << >> ]

\* what a backbone returns for a batch: one scalar per sample
BackboneOut(batch) == << batch, 1 >>

\* the keyword names under which backbones are handed to MultiStream
BackboneNames ==
  << "img_1", "flow_1", "img_2", "flow_2", "img_3", "flow_3" >>

\* MultiStream.__init__, lines 14-28: the attributes assigned on self;
\* the first n names are registered as modules, then the linear layer
MultiStream(n) ==
  [ class |-> "MultiStream", num_models |-> n,
    attrs |-> { "endpoints", "num_models" },
    modules |-> SubSeq(BackboneNames, 1, n) \o << "Linear_layer" >> ]

\* MultiStreamShared.__init__, lines 47-62
MultiStreamShared(num_m) ==
  [ class |-> "MultiStreamShared", num_models |-> num_m,
    attrs |-> { "model_img_name", "model_img", "model_flow_name",
                "model_flow", "num_models", "fc_name", "fc_linear" },
    modules |-> << "Model_img", "Model_flow", "Linear_layer" >> ]

\* nn.Module.__getattr__: an attribute that was never assigned, and is no
\* registered module, raises AttributeError
HasAttr(module, name) ==
  \/ name \in module.attrs
  \/ \E k \in 1 .. Len(module.modules) : module.modules[k] = name

\* lines 37-38 and 74-75: stack, squeeze, relu and the linear layer
Fuse(module, n_inputs, batch) ==
  IF n_inputs = 0
    THEN [ kind |-> "RuntimeError", shape |-> << >> ]
    ELSE Linear(module.num_models, squeeze(stack1(BackboneOut(batch), n_inputs)))

\* MultiStream.forward, lines 30-39
MultiStreamForward(module, n_inputs, batch) ==
  IF n_inputs # module.num_models
    THEN [ kind |-> "AssertionError", shape |-> << >> ]
  ELSE IF n_inputs > 0 /\ ~ HasAttr(module, "model_name")
    THEN [ kind |-> "AttributeError", shape |-> << >> ]
  ELSE IF ~ HasAttr(module, "fc_name")
    THEN IF n_inputs = 0
           THEN [ kind |-> "RuntimeError", shape |-> << >> ]
           ELSE [ kind |-> "AttributeError", shape |-> << >> ]
  ELSE Fuse(module, n_inputs, batch)

\* MultiStreamShared.forward, lines 64-76
MultiStreamSharedForward(module, n_inputs, batch) ==
  IF n_inputs # module.num_models
    THEN [ kind |-> "AssertionError", shape |-> << >> ]
    ELSE Fuse(module, n_inputs, batch)

StreamInit ==
  /\ \E n \in 1 .. MaxStreams :
       net \in { MultiStream(n), MultiStreamShared(n) }
  /\ fin \in [ n_inputs : 0 .. MaxStreams, batch : 1 .. MaxBatch ]
  /\ fout = [ kind |-> "not called" ]

\* a forward call on a MultiStream
ForwardMultiStream ==
  /\ net.class = "MultiStream"
  /\ fout.kind = "not called"
  /\ fout' = MultiStreamForward(net, fin.n_inputs, fin.batch)
  /\ UNCHANGED << net, fin >>
  /\ StreamOnly

\* a forward call on a MultiStreamShared
ForwardMultiStreamShared ==
  /\ net.class = "MultiStreamShared"
  /\ fout.kind = "not called"
  /\ fout' = MultiStreamSharedForward(net, fin.n_inputs, fin.batch)
  /\ UNCHANGED << net, fin >>
  /\ StreamOnly

StreamNext ==
  \/ ForwardMultiStream
  \/ ForwardMultiStreamShared

\* ------------------------- data/data_augmentations.py: transform_size

\* the transforms flags that transform_size reads
SizeFlags ==
  [ grayscale : BOOLEAN, rwave_data_only : BOOLEAN, rescale_fps : BOOLEAN,
    resize_frames : BOOLEAN, rescale_fphb : BOOLEAN, crop_sides : BOOLEAN,
    crop_length : BOOLEAN, loop_length : BOOLEAN, pad_length : BOOLEAN ]

\* frame sizes (height, width) of the explored videos
FrameSizes == { << 1, 2 >>, << 2, 1 >> }

\* calc_rwave_data, lines 498-507: the largest gap between neighbouring
\* r-waves, in milliseconds, and the indexes of the two; the first of
\* equal gaps wins, and no positive gap leaves (0, (0, 0))
RECURSIVE RwaveScan(_, _, _)
RwaveScan(rwaves, i, best) ==
  IF i > Len(rwaves) - 1 THEN best
  ELSE LET diff == rwaves[i + 1] - rwaves[i]
       IN RwaveScan(rwaves, i + 1,
                    IF diff > best.max_diff
                      THEN [ max_diff |-> diff, indexes |-> << i - 1, i >> ]
                      ELSE best)

calc_rwave_data(rwaves) ==
  RwaveScan(rwaves, 1, [ max_diff |-> 0, indexes |-> << 0, 0 >> ])

\* calc_fphb, lines 266-275: fps / (hr / 60) as a fraction
calc_fphb(hr, fps) == << 60 * fps, hr >>

\* calc_rwave_fphb, lines 277-286: fps / (1 / rwave_diff) as a fraction,
\* rwave_diff being max_diff milliseconds
calc_rwave_fphb(max_diff, fps) == << fps * max_diff, MsPerSecond >>

\* lines 132-143: new_length; curr is curr_fphb when it was computed
NewLength(z, length, curr) ==
  IF z.flags.rescale_fps /\ z.target_fps # z.fps
    THEN (length * z.target_fps) \div z.fps
  ELSE IF z.flags.rescale_fphb
    THEN LET n == CeilDiv(length * z.target_fphb * curr[2], curr[1])
         IN IF n < z.target_fphb THEN z.target_fphb ELSE n
  ELSE length

\* mutant of ShapeOK: only the length is compared
ShapeOKLengthOnly(shape, z) == shape[1] = z.target_length

\* line 178: the final shape against (target_length, target_height,
\* target_width, img.shape[3])
ShapeOK(shape, z) ==
  shape = << z.target_length, z.target_size[1], z.target_size[2], shape[4] >>

\* an exception leaves transform_size at the given source line
Raised(st, exception, line) ==
  [ st EXCEPT !.kind = exception, !.line = line ]

\* the next statement of transform_size
Goto(st, stage) == [ st EXCEPT !.at = stage ]

\* the arguments and configuration of one call: a video of shape
\* (L, H, W, C), its frame rate, heart rate and r-wave timestamps; zout
\* holds the locals: the shape of img, whether img was replaced by a new
\* array (copied), and curr_fphb, which is << >> until it is assigned
SizeInit ==
  /\ zin \in [ flags : SizeFlags,
               shape : { << l >> \o hw \o << c >> :
                           l \in 1 .. MaxSizeLen, hw \in FrameSizes, c \in { 1, 3 } },
               target_length : 1 .. MaxSizeLen,
               target_size : { << 1, 2 >> },
               target_fps : { 2 }, target_fphb : 1 .. MaxSizeLen,
               fps : { 1, 2 }, hr : { 120 },
               rwaves : { << 0 >>, << 0, 500, 1500 >> } ]
  /\ zout = [ kind |-> "running", at |-> "grayscale", line |-> 0,
              shape |-> zin.shape, copied |-> FALSE, curr_fphb |-> << >>,
              new_length |-> 0,
              rw |-> [ max_diff |-> 0, indexes |-> << 0, 0 >> ] ]

Running(stage) == zout.kind = "running" /\ zout.at = stage

\* lines 121-122: t_grayscale_mean averages the last axis away
SizeGrayscale ==
  /\ Running("grayscale")
  /\ zout' = Goto(IF zin.flags.grayscale
                    THEN [ zout EXCEPT !.shape = SubSeq(@, 1, Len(@) - 1),
                                       !.copied = TRUE ]
                    ELSE zout,
                  "rwave_data")
  /\ UNCHANGED zin
  /\ SizeOnly

\* lines 127-128
SizeRwaveData ==
  /\ Running("rwave_data")
  /\ zout' = Goto(IF zin.flags.rwave_data_only
                    THEN [ zout EXCEPT !.rw = calc_rwave_data(zin.rwaves) ]
                    ELSE zout,
                  "rescale")
  /\ UNCHANGED zin
  /\ SizeOnly

\* lines 129-154
SizeRescale ==
  /\ Running("rescale")
  /\ LET f == zin.flags
         by_fps == f.rescale_fps /\ zin.target_fps # zin.fps
         assigned == ~ by_fps /\ f.rescale_fphb
         curr == IF ~ assigned THEN zout.curr_fphb
                 ELSE IF f.rwave_data_only
                   THEN calc_rwave_fphb(zout.rw.max_diff, zin.fps)
                   ELSE calc_fphb(zin.hr, zin.fps)
         resized == f.resize_frames
                      /\ ~ (zout.shape[2] = zin.target_size[1]
                            /\ zout.shape[3] = zin.target_size[2])
     IN zout' =
          IF ~ (f.rescale_fps \/ f.resize_frames \/ f.rescale_fphb)
            THEN Goto(zout, "assert")
          ELSE IF f.rescale_fps /\ f.rescale_fphb
            THEN Raised(zout, "AssertionError", 130)
          ELSE IF assigned /\ f.rwave_data_only /\ zout.rw.max_diff = 0
            THEN Raised(zout, "ZeroDivisionError", 284)
          ELSE Goto([ zout EXCEPT
                        !.shape = << NewLength(zin, zout.shape[1], curr),
                                     IF resized THEN zin.target_size[1] ELSE zout.shape[2],
                                     IF resized THEN zin.target_size[2] ELSE zout.shape[3] >>
                                  \o SubSeq(zout.shape, 4, Len(zout.shape)),
                        !.copied = TRUE, !.curr_fphb = curr,
                        !.new_length = NewLength(zin, zout.shape[1], curr) ],
                    "assert")
  /\ UNCHANGED zin
  /\ SizeOnly

\* line 160: the asserted condition
ExclusiveOK(f) == ~ (f.loop_length /\ f.crop_length /\ f.rwave_data_only)

\* line 160
SizeAssert ==
  /\ Running("assert")
  /\ zout' = IF ExclusiveOK(zin.flags) THEN Goto(zout, "crop")
             ELSE Raised(zout, "AssertionError", 160)
  /\ UNCHANGED zin
  /\ SizeOnly

\* lines 161-162: skimage's crop wants one pair per axis of img
SizeCrop ==
  /\ Running("crop")
  /\ zout' =
       IF ~ (zin.flags.crop_sides \/ zin.flags.crop_length)
         THEN Goto(zout, "rwave_crop")
       ELSE IF Len(zout.shape) # 4 THEN Raised(zout, "ValueError", 342)
       ELSE LET w == CropWindow(zout.shape[1], zin.flags.crop_length,
                                zin.target_length)
            IN Goto([ zout EXCEPT !.shape[1] = @ - w[1] - w[2], !.copied = TRUE ],
                    "rwave_crop")
  /\ UNCHANGED zin
  /\ SizeOnly

\* lines 167-169
SizeRwaveCrop ==
  /\ Running("rwave_crop")
  /\ zout' =
       IF ~ zin.flags.rwave_data_only THEN Goto(zout, "loop")
       ELSE IF zout.curr_fphb = << >>
         THEN Raised(zout, "UnboundLocalError", 168)
       ELSE
         LET new_fps == << zin.fps * zin.target_fphb * zout.curr_fphb[2],
                           zout.curr_fphb[1] >>
             r == t_crop_rwave(FrameIds(zout.shape[1]), zin.rwaves,
                               zout.rw.indexes, new_fps, zin.target_fphb)
         IN IF r.kind = "ValueError" THEN Raised(zout, "ValueError", 370)
            ELSE Goto([ zout EXCEPT !.shape[1] = Len(r.frames),
                                    !.copied = @ \/ r.sliced ],
                      "loop")
  /\ UNCHANGED zin
  /\ SizeOnly

\* lines 170-171; a video of no frame is looped for ever
SizeLoop ==
  /\ Running("loop")
  /\ zout' =
       IF ~ zin.flags.loop_length THEN Goto(zout, "pad")
       ELSE IF zout.shape[1] = 0 THEN Raised(zout, "hangs", 324)
       ELSE Goto([ zout EXCEPT
                     !.shape[1] = Len(t_loop_length(FrameIds(@), zin.target_length)),
                     !.copied = TRUE ],
                 "pad")
  /\ UNCHANGED zin
  /\ SizeOnly

\* lines 172-173: np.pad wants one pair per axis of img
SizePad ==
  /\ Running("pad")
  /\ zout' =
       IF ~ zin.flags.pad_length \/ zin.target_length - zout.shape[1] <= 0
         THEN Goto(zout, "check")
       ELSE IF Len(zout.shape) # 4 THEN Raised(zout, "ValueError", 314)
       ELSE Goto([ zout EXCEPT !.shape[1] = zin.target_length, !.copied = TRUE ],
                 "check")
  /\ UNCHANGED zin
  /\ SizeOnly

\* lines 178-180
SizeCheck ==
  /\ Running("check")
  /\ zout' =
       IF Len(zout.shape) < 4 THEN Raised(zout, "IndexError", 178)
       ELSE IF ~ ShapeOK(zout.shape, zin) THEN Raised(zout, "ValueError", 179)
       ELSE [ zout EXCEPT !.kind = "return", !.line = 180 ]
  /\ UNCHANGED zin
  /\ SizeOnly

\* transform_size, lines 111-180
SizeNext ==
  \/ SizeGrayscale
  \/ SizeRwaveData
  \/ SizeRescale
  \/ SizeAssert
  \/ SizeCrop
  \/ SizeRwaveCrop
  \/ SizeLoop
  \/ SizePad
  \/ SizeCheck

\* ---------------------------------------------------------- npy_dataset.py

\* the characters of identifiers and filenames
Chars == { "a", "b" }

\* filenames: an identifier and one more character
Names == [ 1 .. MaxUidLen + 1 -> Chars ]

\* mutant of Prefix: the whole filename is the key
PrefixWhole(filename, uid_len) == filename

\* line 56: filename[0:uid_len]
Prefix(filename, uid_len) ==
  SubSeq(filename, 1, IF uid_len < Len(filename) THEN uid_len ELSE Len(filename))

\* load_filenames, lines 44-57: the files in the order os.walk lists them,
\* a later file replacing an earlier one under the same key; the path of a
\* file is its position in the listing
load_filenames(listing, uid_len) ==
  [ key \in { Prefix(listing[k].name, uid_len) : k \in 1 .. Len(listing) } |->
      CHOOSE k \in 1 .. Len(listing) :
        /\ Prefix(listing[k].name, uid_len) = key
        /\ \A j \in (k + 1) .. Len(listing) :
             Prefix(listing[j].name, uid_len) # key ]

\* the transform object called on an array (cnn_data_aug, not part of the
\* sources): some array determined by the input array
Transformed(array) == [ transform_of |-> array ]

\* __len__, lines 29-30
DatasetLen(self) == Len(self.targets)

\* __getitem__, lines 32-42
DatasetGetItem(self, listing, index) ==
  IF index < 0 - Len(self.targets) \/ index >= Len(self.targets)
    THEN [ kind |-> "IndexError", index |-> index, value |-> << >> ]
  ELSE LET row == self.targets[(index % Len(self.targets)) + 1]
       IN IF row.us_id \notin DOMAIN self.img_dict
            THEN [ kind |-> "KeyError", index |-> index, value |-> << >> ]
            ELSE [ kind |-> "return", index |-> index,
                   value |-> << Transformed(listing[self.img_dict[row.us_id]].array),
                                row.target >> ]

\* the directory (each file holding its own array), the target table and
\* uid_len
DatasetInit ==
  /\ dsin \in [ listing : UNION { [ 1 .. n -> Names ] : n \in 0 .. MaxFiles },
                uid_len : 1 .. MaxUidLen ]
  /\ \E n \in 0 .. MaxRows :
       dstab \in [ 1 .. n -> [ us_id : UNION { [ 1 .. m -> Chars ] : m \in 1 .. MaxUidLen },
                               target : 0 .. 1 ] ]
  /\ \A k \in 1 .. Len(dstab) : Len(dstab[k].us_id) = dsin.uid_len
  /\ ds = [ built |-> FALSE ]
  /\ got = [ kind |-> "none" ]

\* the files of the directory: file k of the listing holds array k
Listing == [ k \in 1 .. Len(dsin.listing) |-> [ name |-> dsin.listing[k], array |-> k ] ]

\* __init__, lines 14-26
DatasetConstruct ==
  /\ ~ ds.built
  /\ ds' = [ built |-> TRUE, targets |-> dstab,
             img_dict |-> load_filenames(Listing, dsin.uid_len) ]
  /\ UNCHANGED << dsin, dstab, got >>
  /\ DatasetOnly

\* len(dataset)
DatasetCallLen ==
  /\ ds.built
  /\ got' = [ kind |-> "len", index |-> 0, value |-> DatasetLen(ds) ]
  /\ UNCHANGED << dsin, dstab, ds >>
  /\ DatasetOnly

\* dataset[index]
DatasetCallGetItem ==
  /\ ds.built
  /\ \E index \in 0 .. MaxRows : got' = DatasetGetItem(ds, Listing, index)
  /\ UNCHANGED << dsin, dstab, ds >>
  /\ DatasetOnly

DatasetNext ==
  \/ DatasetConstruct
  \/ DatasetCallLen
  \/ DatasetCallGetItem

\* ----------------------- data/data_augmentations.py: transform_values

(* A video of shape (1, 2, 2, 1) is the tuple of its four pixels, rows
   first.  A uint8 array holds the pixel values; a float array holds
   numerators over FloatUnit, so that value / 255 and (value / 255) * 2 - 1
   are exact. *)

\* the flags that transform_values reads
ValueFlags ==
  [ normalize_input : BOOLEAN, gaussian_noise : BOOLEAN, speckle : BOOLEAN,
    salt_and_pepper : BOOLEAN, translate_h : BOOLEAN, translate_v : BOOLEAN,
    rotate : BOOLEAN, zoom : BOOLEAN, local_blackout : BOOLEAN,
    local_intensity : BOOLEAN ]

\* the videos handed in: np.uint8, values in 0-255
ValueVideos == { << 255, 255, 255, 255 >>, << 128, 128, 128, 128 >>,
                 << 0, 128, 255, 128 >> }

\* height and width of a frame
FrameSide == 2

\* the pixel of row r, column c (from 0)
At(r, c) == r * FrameSide + c + 1

\* a float holding value
AsFloat(value) == value * FloatUnit

\* an array object: its pixels, its element type, and whether it is the
\* caller's array or a view of it
Floats(px) == [ px |-> px, dtype |-> "float", shared |-> FALSE ]

\* self.black_val and self.white_val in an array of element type dt
BlackIn(dt, normalize_input) ==
  IF dt = "uint8" THEN 0 ELSE AsFloat(black_val(normalize_input))
WhiteIn(normalize_input) ==
  IF normalize_input THEN AsFloat(1) ELSE AsFloat(UInt8Range - 1)

\* img.astype(np.float32), line 109, and the float conversion of np.clip
astype_float(a) ==
  Floats(IF a.dtype = "uint8" THEN [ k \in 1 .. 4 |-> AsFloat(a.px[k]) ] ELSE a.px)

\* t_normalize_signed, lines 221-227: ((img / 255.) * 2 - 1), a new array
t_normalize_signed(a) ==
  Floats([ k \in 1 .. 4 |-> 2 * a.px[k] - FloatUnit ])

\* random_noise of skimage (lines 229-251): the image as floats (a uint8
\* value v becomes v / 255, of numerator v), noise added, a new array; the
\* noise either leaves the values or sets the first pixel to 1
random_noise(a) ==
  { Floats(a.px), Floats([ a.px EXCEPT ![1] = AsFloat(1) ]) }

\* t_translate_v, lines 382-406: a new array of the same element type, the
\* rows moved down by t_len, black_val in the rows uncovered
t_translate_v(a, t_len, black) ==
  [ a EXCEPT !.shared = FALSE,
             !.px = [ k \in 1 .. 4 |->
               LET r == (k - 1) \div FrameSide
                   c == (k - 1) % FrameSide
               IN IF t_len = 0 THEN a.px[k]
                  ELSE IF r - t_len \in 0 .. FrameSide - 1
                    THEN a.px[At(r - t_len, c)] ELSE black ] ]

\* t_translate_h, lines 408-431: the same along the columns
t_translate_h(a, t_len, black) ==
  [ a EXCEPT !.shared = FALSE,
             !.px = [ k \in 1 .. 4 |->
               LET r == (k - 1) \div FrameSide
                   c == (k - 1) % FrameSide
               IN IF t_len = 0 THEN a.px[k]
                  ELSE IF c - t_len \in 0 .. FrameSide - 1
                    THEN a.px[At(r, c - t_len)] ELSE black ] ]

\* t_rotate, lines 433-450: a new array of the same element type; the
\* angles explored are 0 and 180 degrees
t_rotate(a, half_turn) ==
  [ a EXCEPT !.shared = FALSE,
             !.px = IF half_turn THEN [ k \in 1 .. 4 |-> a.px[5 - k] ] ELSE a.px ]

\* t_zoom, lines 509-545: with zoom_factor 1 (or a zoomed frame of the
\* same size) img itself is returned, line 527; otherwise a new float
\* array.  The factor explored below 1 is 0.5: the zoomed frame is one
\* pixel, the mean of the four (rounded here), put at row 0, column 0
t_zoom(a, unzoomed, black) ==
  IF unzoomed THEN a
  ELSE LET f == astype_float(a).px
       IN Floats(<< (f[1] + f[2] + f[3] + f[4]) \div 4, black, black, black >>)

\* np.random.randint(0, high): the values it may return, none (ValueError)
\* when high <= 0
randint(high) == 0 .. high - 1

\* the rectangles t_local_blackout and t_local_intensity draw (lines
\* 460-464, 481-485): size and position along each axis
Boxes ==
  { b \in [ size_h : 0 .. MaxBox, size_w : 0 .. MaxBox,
            pos_h : 0 .. FrameSide, pos_w : 0 .. FrameSide ] :
      /\ b.pos_h \in randint(FrameSide - b.size_h)
      /\ b.pos_w \in randint(FrameSide - b.size_w) }

\* whether some draw of the sizes makes randint raise
BoxRaises ==
  \E h \in 0 .. MaxBox, w \in 0 .. MaxBox :
    randint(FrameSide - h) = {} \/ randint(FrameSide - w) = {}

\* the pixels of the frame inside the rectangle
InBox(b, k) ==
  LET r == (k - 1) \div FrameSide
      c == (k - 1) % FrameSide
  IN /\ b.pos_h <= r /\ r < b.pos_h + b.size_h
     /\ b.pos_w <= c /\ c < b.pos_w + b.size_w

\* t_local_blackout, lines 452-472: the frames of the transposed view are
\* written in place; the result is a view of the array passed in
t_local_blackout(a, b, black) ==
  [ a EXCEPT !.px = [ k \in 1 .. 4 |-> IF InBox(b, k) THEN black ELSE a.px[k] ] ]

\* t_local_intensity, lines 474-494: the frames of the transposed view
\* are written in place, ints_val added inside the rectangle; the sets of
\* values each pixel may hold afterwards
IntensityWritten(a, b, ints_val) ==
  [ k \in 1 .. 4 |->
      IF InBox(b, k)
        THEN IF a.dtype = "uint8" THEN StoredAs("uint8", a.px[k] + ints_val)
             ELSE { a.px[k] + AsFloat(ints_val) }
        ELSE { a.px[k] } ]

\* the arrays of pixels drawn from the sets w
Drawn(w) ==
  { q \in [ 1 .. 4 -> UNION { w[k] : k \in 1 .. 4 } ] : \A k \in 1 .. 4 : q[k] \in w[k] }

\* line 495: np.clip(video, self.black_val, self.white_val), a new array
clip(a, black, white) ==
  Floats([ k \in 1 .. 4 |->
           LET v == astype_float(a).px[k]
           IN IF v < black THEN black ELSE IF v > white THEN white ELSE v ])

\* the stages of transform_values in order
ValueStages ==
  << "normalize_input", "gaussian_noise", "speckle", "salt_and_pepper",
     "translate_h", "translate_v", "rotate", "zoom", "local_blackout",
     "local_intensity", "return" >>

\* the arguments of one call and its state: the caller's array (caller),
\* the array img refers to, and the position in the method
ValuesInit ==
  /\ vin \in [ flags : ValueFlags, video : ValueVideos ]
  /\ vout = [ kind |-> "running", at |-> 1, caller |-> vin.video,
              img |-> [ px |-> vin.video, dtype |-> "uint8", shared |-> TRUE ] ]

\* the call stands before the stage
AtStage(stage) == vout.kind = "running" /\ ValueStages[vout.at] = stage

\* img is rebound to the array a and the next stage follows; an array
\* that shares memory with the caller's shows its pixels there
Rebound(a) ==
  [ vout EXCEPT !.at = @ + 1, !.img = a,
                !.caller = IF a.shared THEN a.px ELSE @ ]

\* the stage is switched off
Skipped == [ vout EXCEPT !.at = @ + 1 ]

\* lines 42-43
ValuesNormalize ==
  /\ AtStage("normalize_input")
  /\ vout' = IF vin.flags.normalize_input
               THEN Rebound(t_normalize_signed(vout.img)) ELSE Skipped
  /\ UNCHANGED vin
  /\ ValuesOnly

\* lines 50-51: t_gaussian_noise
ValuesGaussianNoise ==
  /\ AtStage("gaussian_noise")
  /\ IF vin.flags.gaussian_noise
       THEN \E a \in random_noise(vout.img) : vout' = Rebound(a)
       ELSE vout' = Skipped
  /\ UNCHANGED vin
  /\ ValuesOnly

\* lines 56-57: t_speckle
ValuesSpeckle ==
  /\ AtStage("speckle")
  /\ IF vin.flags.speckle
       THEN \E a \in random_noise(vout.img) : vout' = Rebound(a)
       ELSE vout' = Skipped
  /\ UNCHANGED vin
  /\ ValuesOnly

\* lines 62-63: t_salt_and_pepper
ValuesSaltAndPepper ==
  /\ AtStage("salt_and_pepper")
  /\ IF vin.flags.salt_and_pepper
       THEN \E a \in random_noise(vout.img) : vout' = Rebound(a)
       ELSE vout' = Skipped
  /\ UNCHANGED vin
  /\ ValuesOnly

\* lines 70-71
ValuesTranslateH ==
  /\ AtStage("translate_h")
  /\ IF vin.flags.translate_h
       THEN \E t_len \in { 0 - 1, 0, 1 } :
              vout' = Rebound(t_translate_h(vout.img, t_len,
                        BlackIn(vout.img.dtype, vin.flags.normalize_input)))
       ELSE vout' = Skipped
  /\ UNCHANGED vin
  /\ ValuesOnly

\* lines 76-77
ValuesTranslateV ==
  /\ AtStage("translate_v")
  /\ IF vin.flags.translate_v
       THEN \E t_len \in { 0 - 1, 0, 1 } :
              vout' = Rebound(t_translate_v(vout.img, t_len,
                        BlackIn(vout.img.dtype, vin.flags.normalize_input)))
       ELSE vout' = Skipped
  /\ UNCHANGED vin
  /\ ValuesOnly

\* lines 82-83
ValuesRotate ==
  /\ AtStage("rotate")
  /\ IF vin.flags.rotate
       THEN \E half_turn \in BOOLEAN :
              vout' = Rebound(t_rotate(vout.img, half_turn))
       ELSE vout' = Skipped
  /\ UNCHANGED vin
  /\ ValuesOnly

\* lines 88-89
ValuesZoom ==
  /\ AtStage("zoom")
  /\ IF vin.flags.zoom
       THEN \E unzoomed \in BOOLEAN :
              vout' = Rebound(t_zoom(vout.img, unzoomed,
                        AsFloat(black_val(vin.flags.normalize_input))))
       ELSE vout' = Skipped
  /\ UNCHANGED vin
  /\ ValuesOnly

\* lines 96-97
ValuesLocalBlackout ==
  /\ AtStage("local_blackout")
  /\ IF vin.flags.local_blackout
       THEN \/ \E b \in Boxes :
                 vout' = Rebound(t_local_blackout(vout.img, b,
                           BlackIn(vout.img.dtype, vin.flags.normalize_input)))
            \/ /\ BoxRaises
               /\ vout' = [ vout EXCEPT !.kind = "ValueError" ]
       ELSE vout' = Skipped
  /\ UNCHANGED vin
  /\ ValuesOnly

\* lines 102-103: the in-place addition, then the clip
ValuesLocalIntensity ==
  /\ AtStage("local_intensity")
  /\ IF vin.flags.local_intensity
       THEN \/ \E b \in Boxes, ints_val \in { 0 - 1, 1 } :
                 \E px \in Drawn(IntensityWritten(vout.img, b, ints_val)) :
                   LET written == [ vout.img EXCEPT !.px = px ]
                   IN vout' = [ Rebound(clip(written,
                                  AsFloat(black_val(vin.flags.normalize_input)),
                                  WhiteIn(vin.flags.normalize_input)))
                                EXCEPT !.caller = IF vout.img.shared THEN px ELSE @ ]
            \/ /\ BoxRaises
               /\ vout' = [ vout EXCEPT !.kind = "ValueError" ]
       ELSE vout' = Skipped
  /\ UNCHANGED vin
  /\ ValuesOnly

\* line 109: return img.astype(np.float32)
ValuesReturn ==
  /\ AtStage("return")
  /\ vout' = [ vout EXCEPT !.kind = "return", !.img = astype_float(vout.img) ]
  /\ UNCHANGED vin
  /\ ValuesOnly

ValuesNext ==
  \/ ValuesNormalize
  \/ ValuesGaussianNoise
  \/ ValuesSpeckle
  \/ ValuesSaltAndPepper
  \/ ValuesTranslateH
  \/ ValuesTranslateV
  \/ ValuesRotate
  \/ ValuesZoom
  \/ ValuesLocalBlackout
  \/ ValuesLocalIntensity
  \/ ValuesReturn

\* ------------- data/data_augmentations.py: new_length in float arithmetic

(* Python computes new_length with float (IEEE 754 binary64) operands.  A
   natural number of any size is the sequence of its digits in base Limb,
   lowest first and without leading zeros; a float is m * 2^e with m such a
   number of at most 53 bits (54 for exactly 2^53).  Division and
   multiplication round to the nearest float, ties to even. *)

\* the digits of the natural number n
RECURSIVE BFromInt(_)
BFromInt(n) == IF n = 0 THEN << >> ELSE << n % Limb >> \o BFromInt(n \div Limb)

\* the number of the digits a, when it is small
RECURSIVE BToInt(_)
BToInt(a) == IF a = << >> THEN 0 ELSE a[1] + Limb * BToInt(Tail(a))

\* leading zeros removed
RECURSIVE BTrim(_)
BTrim(a) ==
  IF a = << >> THEN a
  ELSE IF a[Len(a)] = 0 THEN BTrim(SubSeq(a, 1, Len(a) - 1)) ELSE a

\* digit k of a (from 1), 0 beyond its end
BDigit(a, k) == IF k <= Len(a) THEN a[k] ELSE 0

\* a + b + carry
RECURSIVE BAddC(_, _, _)
BAddC(a, b, carry) ==
  IF a = << >> /\ b = << >>
    THEN IF carry = 0 THEN << >> ELSE << carry >>
    ELSE LET x == BDigit(a, 1) + BDigit(b, 1) + carry
         IN << x % Limb >> \o
            BAddC(IF a = << >> THEN a ELSE Tail(a),
                  IF b = << >> THEN b ELSE Tail(b), x \div Limb)

BAdd(a, b) == BAddC(a, b, 0)

\* a - b - borrow, for a >= b + borrow; leading zeros are kept
RECURSIVE BSubB(_, _, _)
BSubB(a, b, borrow) ==
  IF a = << >> THEN << >>
  ELSE LET x == a[1] - BDigit(b, 1) - borrow
       IN << x % Limb >> \o
          BSubB(Tail(a), IF b = << >> THEN b ELSE Tail(b),
                IF x < 0 THEN 1 ELSE 0)

BSub(a, b) == BTrim(BSubB(a, b, 0))

\* whether a < b, deciding at digit k and below when the higher ones agree
RECURSIVE BLessAt(_, _, _)
BLessAt(a, b, k) ==
  IF k = 0 THEN FALSE
  ELSE IF a[k] # b[k] THEN a[k] < b[k]
  ELSE BLessAt(a, b, k - 1)

BLess(a, b) ==
  IF Len(a) # Len(b) THEN Len(a) < Len(b) ELSE BLessAt(a, b, Len(a))

\* a * k + carry for a digit k
RECURSIVE BMulSmall(_, _, _)
BMulSmall(a, k, carry) ==
  IF a = << >> THEN (IF carry = 0 THEN << >> ELSE << carry >>)
  ELSE LET x == a[1] * k + carry
       IN << x % Limb >> \o BMulSmall(Tail(a), k, x \div Limb)

\* a * b
RECURSIVE BMul(_, _)
BMul(a, b) ==
  IF a = << >> \/ b = << >> THEN << >>
  ELSE BTrim(BAdd(BMulSmall(a, b[1], 0), << 0 >> \o BMul(a, Tail(b))))

\* a * 2^s for s < LimbBits; the test on twice has it computed before the
\* next doubling
RECURSIVE BShlBits(_, _)
BShlBits(a, s) ==
  IF s <= 0 THEN a
  ELSE LET twice == BAdd(a, a)
       IN IF Len(twice) = 0 THEN twice ELSE BShlBits(twice, s - 1)

\* a * 2^s: whole digits are shifted in as zeros
BShl(a, s) ==
  IF s <= 0 \/ a = << >> THEN a
  ELSE [ k \in 1 .. s \div LimbBits |-> 0 ] \o BShlBits(a, s % LimbBits)

\* the number of bits of a digit, and of a number
RECURSIVE SmallBitLen(_)
SmallBitLen(n) == IF n = 0 THEN 0 ELSE 1 + SmallBitLen(n \div 2)

BBitLen(a) ==
  IF a = << >> THEN 0 ELSE (Len(a) - 1) * LimbBits + SmallBitLen(a[Len(a)])

\* bit i of a (from 0)
BBit(a, i) == (BDigit(a, (i \div LimbBits) + 1) \div (2 ^ (i % LimbBits))) % 2

\* long division: the bits from i down to lo of n are brought down, q and
\* r being the quotient and the remainder of the bits above them.  One bit
\* takes three steps: the bit joins the remainder (BDivBits), the divisor
\* is taken off when it fits (BDivFit), and the next bit follows
\* (BDivNext, whose test, always true, has q and r computed first)
RECURSIVE BDivBits(_, _, _, _, _, _)
RECURSIVE BDivFit(_, _, _, _, _, _)
RECURSIVE BDivNext(_, _, _, _, _, _)
BDivBits(n, d, i, lo, q, r) ==
  IF i < lo THEN [ q |-> q, r |-> r ]
  ELSE BDivFit(n, d, i, lo, q, BAddC(r, r, BBit(n, i)))

BDivFit(n, d, i, lo, q, r) ==
  IF BLess(r, d)
    THEN BDivNext(n, d, i, lo, BAdd(q, q), r)
    ELSE BDivNext(n, d, i, lo, BAddC(q, q, 1), BSub(r, d))

BDivNext(n, d, i, lo, q, r) ==
  IF Len(q) + Len(r) >= 0
    THEN BDivBits(n, d, i - 1, lo, q, r)
    ELSE [ q |-> q, r |-> r ]

\* the same, one digit of n at a time
RECURSIVE BDivDigits(_, _, _, _)
BDivDigits(n, d, k, qr) ==
  IF k = 0 \/ Len(qr.q) < 0 THEN qr
  ELSE BDivDigits(n, d, k - 1,
         BDivBits(n, d, k * LimbBits - 1, (k - 1) * LimbBits, qr.q, qr.r))

\* quotient and remainder of n by d > 0
BDivMod(n, d) == BDivDigits(n, d, Len(n), [ q |-> << >>, r |-> << >> ])

\* the float of an int
FloatOf(k) == [ m |-> BFromInt(k), e |-> 0 ]

\* whether the mantissa q is rounded up: low is what was cut off it (one
\* or two bits, half being their middle) and r the remainder below them; a
\* tie goes to the even mantissa
RoundsUp(q, low, half, r) ==
  \/ low > half
  \/ low = half /\ (r # << >> \/ BBit(q, 0) = 1)

\* the mantissa cut.q, rounded
RoundCut(cut, half, r, e) ==
  [ m |-> IF RoundsUp(cut.q, BToInt(cut.r), half, r)
            THEN BAddC(cut.q, << >>, 1) ELSE cut.q,
    e |-> e ]

\* the quotient qr.q has MantissaBits + drop bits: the last drop are cut
RoundDrop(qr, drop, e) ==
  RoundCut(BDivMod(qr.q, BFromInt(2 ^ drop)), 2 ^ (drop - 1), qr.r, e + drop)

RoundQuotient(qr, e) == RoundDrop(qr, BBitLen(qr.q) - MantissaBits, e)

\* n / d is scaled by 2^s so that its quotient has 54 or 55 bits
RoundShifted(n, d, s, e) ==
  RoundQuotient(BDivMod(BShl(n, s), BShl(d, 0 - s)), e - s)

\* the float nearest to (n / d) * 2^e for n, d > 0
RoundToFloat(n, d, e) ==
  RoundShifted(n, d, (MantissaBits + 1) - (BBitLen(n) - BBitLen(d)), e)

\* x / y and x * y in float arithmetic
FDiv(x, y) == RoundToFloat(x.m, y.m, x.e - y.e)

FMul(x, y) == RoundToFloat(BMul(x.m, y.m), << 1 >>, x.e + y.e)

\* int(x) and math.ceil(x) for a float x > 0 below 2^31
FloatInt(x) ==
  IF x.e >= 0 THEN BToInt(BShl(x.m, x.e))
  ELSE BToInt(BDivMod(x.m, BShl(<< 1 >>, 0 - x.e)).q)

CeilOf(qr) == BToInt(qr.q) + (IF qr.r = << >> THEN 0 ELSE 1)

FloatCeil(x) ==
  IF x.e >= 0 THEN BToInt(BShl(x.m, x.e))
  ELSE CeilOf(BDivMod(x.m, BShl(<< 1 >>, 0 - x.e)))

\* calc_fphb, lines 266-275, in float arithmetic
calc_fphb_float(hr, fps) ==
  LET hbs == FDiv(FloatOf(hr), FloatOf(60))
  IN FDiv(FloatOf(fps), hbs)

\* calc_rwave_data, line 504, and calc_rwave_fphb, lines 277-286, in float
\* arithmetic: rwave_diff is the widest r-wave gap (milliseconds) / 1000
calc_rwave_fphb_float(gap, fps) ==
  LET rwave_diff == FDiv(FloatOf(gap), FloatOf(MsPerSecond))
      hbs == FDiv(FloatOf(1), rwave_diff)
  IN FDiv(FloatOf(fps), hbs)

\* the values explored: they hold quotients that floats round up and
\* quotients that floats round down
LengthVideos == { 1, 2, 11 }
LengthFps == { 3, 11, 30 }
LengthTargetFps == { 15, 30 }
LengthHr == { 60, 100 }
LengthTargetFphb == { 2, 9 }
LengthGaps == { 500, 900 }

\* one call of transform_size as far as the resize: the flags, the length
\* of img, fps, hr and the widest gap of rwaves
LengthInit ==
  /\ win \in [ rescale_fps : BOOLEAN, rescale_fphb : BOOLEAN,
               resize_frames : BOOLEAN, rwave_data_only : BOOLEAN,
               length : LengthVideos, fps : LengthFps,
               target_fps : LengthTargetFps, hr : LengthHr,
               target_fphb : LengthTargetFphb, gap : LengthGaps ]
  /\ wout = [ kind |-> "running", at |-> "rescale", curr_fphb |-> << >>,
              new_length |-> 0, resized |-> 0 ]

\* lines 129-131 and 136-139: the test of the block, the assertion, the
\* choice of the branch, and curr_fphb in the fphb branch
LengthCurrFphb ==
  /\ wout.kind = "running" /\ wout.at = "rescale"
  /\ wout' =
       IF ~ (win.rescale_fps \/ win.resize_frames \/ win.rescale_fphb)
         THEN [ wout EXCEPT !.kind = "skipped" ]
       ELSE IF win.rescale_fps /\ win.rescale_fphb
         THEN [ wout EXCEPT !.kind = "AssertionError" ]
       ELSE IF win.rescale_fps /\ win.target_fps # win.fps
         THEN [ wout EXCEPT !.at = "by_fps" ]
       ELSE IF win.rescale_fphb
         THEN [ wout EXCEPT !.at = "by_fphb",
                  !.curr_fphb = IF win.rwave_data_only
                                  THEN calc_rwave_fphb_float(win.gap, win.fps)
                                  ELSE calc_fphb_float(win.hr, win.fps) ]
       ELSE [ wout EXCEPT !.at = "resize", !.new_length = win.length ]
  /\ UNCHANGED win
  /\ LengthOnly

\* line 133: new_length = int(img.shape[0] * (target_fps / fps))
LengthByFps ==
  /\ wout.kind = "running" /\ wout.at = "by_fps"
  /\ wout' = [ wout EXCEPT !.at = "resize",
                 !.new_length =
                   FloatInt(FMul(FloatOf(win.length),
                                 FDiv(FloatOf(win.target_fps), FloatOf(win.fps)))) ]
  /\ UNCHANGED win
  /\ LengthOnly

\* lines 141-142: "if new_length < target_fphb: new_length = target_fphb"
AtLeast(low, n) == IF n < low THEN low ELSE n

\* lines 140-142: new_length = math.ceil(img.shape[0] * (target_fphb /
\* curr_fphb)), raised to target_fphb
LengthByFphb ==
  /\ wout.kind = "running" /\ wout.at = "by_fphb"
  /\ wout' = [ wout EXCEPT !.at = "resize",
                 !.new_length =
                   AtLeast(win.target_fphb,
                           FloatCeil(FMul(FloatOf(win.length),
                                          FDiv(FloatOf(win.target_fphb),
                                               wout.curr_fphb)))) ]
  /\ UNCHANGED win
  /\ LengthOnly

\* line 154: img = self.t_resize(img, new_length, new_height, new_width)
LengthResize ==
  /\ wout.kind = "running" /\ wout.at = "resize"
  /\ wout' = [ wout EXCEPT !.kind = "resized", !.resized = wout.new_length ]
  /\ UNCHANGED win
  /\ LengthOnly

LengthNext ==
  \/ LengthCurrFphb
  \/ LengthByFps
  \/ LengthByFphb
  \/ LengthResize

\* ------------- train_and_val: the collectives of a run whose validation
\* ------------- pass keeps its metrics in AverageMeterDDP trackers

(* Every rank runs train_epoch, whose batches update a loss and an R2
   tracker; the master alone runs validator.validate, which aggregates in
   the same way.  A tracker update of a rank in a group is dist.barrier()
   followed by dist.all_reduce().  The group pairs the k-th collective of
   a rank with the k-th collective of every other rank. *)

\* the ranks of the group
Ranks == 0 .. (ccfg.world_size - 1)

\* the trackers a pass updates for every batch: loss and R2
Trackers == { "loss", "r2" }

\* a rank entering train_and_val's loop: pass is the loader it iterates,
\* b the batches and u the tracker updates it has finished in the batch,
\* issued the collectives it has entered, in order
NewRank ==
  [ pc |-> "update", pass |-> "train", i |-> 0, b |-> 0, u |-> 0, issued |-> << >> ]

\* the rank enters a collective of the given kind
Issue(pr, kind, pc) == [ pr EXCEPT !.issued = Append(@, kind), !.pc = pc ]

\* every rank has entered as many collectives as rank p: the collective
\* rank p waits in has all its participants
Arrived(p) ==
  \A q \in Ranks : Len(cproc[q].issued) >= Len(cproc[p].issued)

\* the participants of the collective rank p waits in called the same
\* operation
SameCollective(p) ==
  \A q \in Ranks :
    cproc[q].issued[Len(cproc[p].issued)] = cproc[p].issued[Len(cproc[p].issued)]

\* the batches of the loader of a pass
Batches(pass) == IF pass = "train" THEN ccfg.train_batches ELSE ccfg.val_batches

\* train_and_val line 108 after train_epoch returned, line 127 after
\* validate returned
PassEnded(p, pr) ==
  IF pr.pass = "train" /\ p = 0 /\ pr.i % ValEvery = 0
    THEN [ pr EXCEPT !.pc = "update", !.pass = "validate", !.b = 0, !.u = 0 ]
    ELSE [ pr EXCEPT !.pc = "end_of_epoch", !.pass = "train", !.b = 0, !.u = 0 ]

\* a tracker update returned: the next tracker, the next batch, or the end
\* of the pass
AfterUpdate(p, pr) ==
  IF pr.u + 1 < Cardinality(Trackers)
    THEN [ pr EXCEPT !.pc = "update", !.u = @ + 1 ]
  ELSE IF pr.b + 1 < Batches(pr.pass)
    THEN [ pr EXCEPT !.pc = "update", !.b = @ + 1, !.u = 0 ]
  ELSE PassEnded(p, pr)

\* line 97: the next iteration of the epoch loop, or its end
NextEpoch(pr) ==
  [ pr EXCEPT !.i = @ + 1,
              !.pc = IF pr.i + 1 < ccfg.epochs THEN "update" ELSE "cleanup" ]

\* the runs explored: a group of at least two ranks
CollectiveInit ==
  /\ ccfg \in [ world_size : 2 .. MaxWorld, epochs : 1 .. MaxGroupEpochs,
                use_scheduler : BOOLEAN, train_batches : 1 .. MaxBatches,
                val_batches : 1 .. MaxBatches ]
  /\ cproc = [ p \in Slots |->
                IF p \in Ranks THEN NewRank ELSE [ NewRank EXCEPT !.pc = "unstarted" ] ]

\* AverageMeterDDP.update, lines 29-31: dist.barrier() is entered
TrackerUpdate(p) ==
  /\ cproc[p].pc = "update"
  /\ cproc' = [ cproc EXCEPT ![p] = Issue(cproc[p], "barrier", "update_barrier") ]
  /\ UNCHANGED ccfg
  /\ CollectiveOnly

\* lines 31-32: the barrier returns, dist.all_reduce(t_val) is entered
TrackerBarrierReturns(p) ==
  /\ cproc[p].pc = "update_barrier"
  /\ Arrived(p)
  /\ cproc' = [ cproc EXCEPT ![p] = Issue(cproc[p], "all_reduce", "all_reduce") ]
  /\ UNCHANGED ccfg
  /\ CollectiveOnly

\* lines 32-38: all_reduce returns and the value is folded in
TrackerAllReduceReturns(p) ==
  /\ cproc[p].pc = "all_reduce"
  /\ Arrived(p)
  /\ cproc' = [ cproc EXCEPT ![p] = AfterUpdate(p, cproc[p]) ]
  /\ UNCHANGED ccfg
  /\ CollectiveOnly

\* train_and_val, lines 127-128: dist.barrier() is entered
EpochBarrier(p) ==
  /\ cproc[p].pc = "end_of_epoch"
  /\ cproc' = [ cproc EXCEPT ![p] = Issue(cproc[p], "barrier", "barrier") ]
  /\ UNCHANGED ccfg
  /\ CollectiveOnly

\* lines 128-135: the barrier returns; with a scheduler dist.broadcast is
\* entered
EpochBarrierReturns(p) ==
  /\ cproc[p].pc = "barrier"
  /\ Arrived(p)
  /\ cproc' = [ cproc EXCEPT ![p] =
                  IF ccfg.use_scheduler
                    THEN Issue(cproc[p], "broadcast", "bcast")
                    ELSE NextEpoch(cproc[p]) ]
  /\ UNCHANGED ccfg
  /\ CollectiveOnly

\* lines 135-136: dist.broadcast returns, the scheduler is stepped
EpochBroadcastReturns(p) ==
  /\ cproc[p].pc = "bcast"
  /\ Arrived(p)
  /\ cproc' = [ cproc EXCEPT ![p] = NextEpoch(cproc[p]) ]
  /\ UNCHANGED ccfg
  /\ CollectiveOnly

\* a collective whose participants called different operations has no
\* defined outcome: it may return, as the actions above allow, or never
\* return
MismatchHangs(p) ==
  /\ cproc[p].pc \in { "update_barrier", "all_reduce", "barrier", "bcast" }
  /\ Arrived(p)
  /\ ~ SameCollective(p)
  /\ cproc' = [ cproc EXCEPT ![p].pc = "hung" ]
  /\ UNCHANGED ccfg
  /\ CollectiveOnly

\* line 137: cleanup()
GroupCleanup(p) ==
  /\ cproc[p].pc = "cleanup"
  /\ cproc' = [ cproc EXCEPT ![p].pc = "done" ]
  /\ UNCHANGED ccfg
  /\ CollectiveOnly

CollectiveNext ==
  \E p \in Slots :
    \/ TrackerUpdate(p)
    \/ TrackerBarrierReturns(p)
    \/ TrackerAllReduceReturns(p)
    \/ EpochBarrier(p)
    \/ EpochBarrierReturns(p)
    \/ EpochBroadcastReturns(p)
    \/ MismatchHangs(p)
    \/ GroupCleanup(p)

\* ------------------------------------------------- claims on train_ddp.py

RECURSIVE SeqMax(_)
SeqMax(s) ==
  IF Len(s) = 1 THEN s[1]
  ELSE LET m == SeqMax(Tail(s)) IN IF s[1] > m THEN s[1] ELSE m

(* C1: with the scheduler enabled in a distributed run, a process has
   stepped its scheduler once per finished epoch, the value of the step of
   epoch k is the value rank 0 handed to the broadcast of epoch k, and so
   two processes that finished the same number of epochs hold the same
   scheduler state. *)
C1_SchedulerStepsOnBroadcast ==
  (cfg.ddp /\ cfg.use_scheduler) =>
    /\ \A p \in Slots :
         /\ Len(proc[p].sched) = proc[p].i
         /\ Len(proc[p].sched) <= Len(sent)
         /\ \A k \in 1 .. Len(proc[p].sched) : proc[p].sched[k] = sent[k]
    /\ \A p, q \in Slots :
         proc[p].i = proc[q].i => proc[p].sched = proc[q].sched

\* a rank-1 process went through every epoch and was stepped with the two
\* different losses of the two validations, the first one not its own 0
C1_Witness ==
  \E p \in Slots :
    /\ cfg.ddp /\ cfg.use_scheduler
    /\ proc[p].rank = 1
    /\ Len(proc[p].sched) = cfg.epochs
    /\ proc[p].sched[1] = 1
    /\ proc[p].sched[cfg.epochs] = 0

(* C2: only the process spawned with rank 0 initializes experiment logging,
   creates the checkpoint directory, validates or saves a checkpoint, and no
   two processes write the checkpoint file (distributed mode on or off). *)
C2_OnlyRankZeroWrites ==
  /\ \A p \in Slots :
       proc[p].rank # 0 =>
         /\ proc[p].experiment # "run"
         /\ ~ proc[p].made_dir
         /\ proc[p].val_log = << >>
         /\ proc[p].saved = {}
  /\ Cardinality({ p \in Slots : proc[p].saved # {} }) <= 1

(* C3: save_checkpoint is called in an epoch iff validation ran in it,
   checkpointing is enabled and its R2 is strictly greater than the R2 of
   every earlier validation (or it is the first); after every validation
   max_val_r2 is the maximum of the R2 values seen so far. *)
C3_SaveOnStrictlyBetter ==
  \A p \in Slots :
    LET log == proc[p].val_log IN
      /\ \A e \in 0 .. cfg.epochs :
           e \in proc[p].saved <=>
             /\ cfg.checkpointing_enabled
             /\ \E k \in 1 .. Len(log) :
                  /\ log[k].epoch = e
                  /\ \A j \in 1 .. (k - 1) : log[k].r2 > log[j].r2
      /\ proc[p].max_val_r2 =
           IF Len(log) = 0 THEN None
           ELSE Some(SeqMax([ k \in 1 .. Len(log) |-> log[k].r2 ]))

\* two validations with the same R2: only the first one saved
C3_Witness ==
  \E p \in Slots :
    /\ Len(proc[p].val_log) = 2
    /\ proc[p].val_log[1].r2 = proc[p].val_log[2].r2
    /\ proc[p].saved = { 0 }

\* the master of the claims: rank 0 of the group, or a process with no group
MasterProcess(p) == cfg.ddp => proc[p].rank = 0

\* process p is past line 109 of epoch e
PastValidation(p, e) ==
  \/ proc[p].i > e
  \/ /\ proc[p].i = e
     /\ proc[p].pc \in { "barrier", "bcast", "failed" }

(* C4: validator.validate is called exactly in the epochs i with
   i % 10 = 0, once each, only by the master, and after train_epoch of that
   epoch returned. *)
C4_ValidateEveryTenth ==
  \A p \in Slots :
    LET log == proc[p].val_log
        due == { e \in 0 .. (cfg.epochs - 1) :
                   /\ e % 10 = 0
                   /\ proc[p].pc # "unstarted"
                   /\ MasterProcess(p)
                   /\ PastValidation(p, e) }
    IN /\ { log[k].epoch : k \in 1 .. Len(log) } = due
       /\ Len(log) = Cardinality(due)

\* in a group of two the master validated in epochs 0 and 10 and rank 1,
\* which went through the same epochs, never did
C4_Witness ==
  \E p, q \in Slots :
    /\ cfg.ddp
    /\ proc[p].rank = 0 /\ Len(proc[p].val_log) = 2
    /\ proc[p].val_log[2].epoch = 10
    /\ proc[q].rank = 1 /\ proc[q].i > 10

\* process p has entered train_epoch of epoch e
StartedTrain(p, e) ==
  \/ proc[p].i > e
  \/ proc[p].i = e /\ proc[p].pc \notin { "unstarted", "start", "init_wait", "setup", "loop" }

\* process p is past the training, validation and checkpointing of epoch e
FinishedEpochWork(p, e) ==
  \/ proc[p].i > e
  \/ proc[p].i = e /\ proc[p].pc \in { "barrier", "bcast" }

(* C5: with a process group, no process starts train_epoch of epoch e+1
   before every process finished the training of epoch e and the master
   finished the validation and checkpointing of epoch e. *)
C5_BarrierSeparatesEpochs ==
  cfg.ddp =>
    \A p, q \in 0 .. (cfg.world_size - 1) :
      \A e \in 0 .. cfg.epochs :
        StartedTrain(p, e + 1) => FinishedEpochWork(q, e)

\* rank 1 trains epoch 1 while the master, which saved a checkpoint in
\* epoch 0, has not yet returned from the barrier of epoch 0
C5_Witness ==
  \E p, q \in Slots :
    /\ cfg.ddp
    /\ proc[p].rank = 1 /\ proc[p].pc = "train" /\ proc[p].i = 1
    /\ proc[q].rank = 0 /\ proc[q].pc = "barrier" /\ proc[q].i = 0
    /\ proc[q].saved = { 0 }

(* C6: the datasets are built once, before any process is started; main
   starts exactly world_size processes, the k-th with rank k; main returns
   only after every started process has finished. *)
C6_SpawnAndJoin ==
  /\ main.datasets <= 1
  /\ Len(processes) > 0 => main.datasets = 1
  /\ Len(processes) <= cfg.world_size
  /\ main.pc \in { "join", "done" } => Len(processes) = cfg.world_size
  /\ \A k \in 1 .. Len(processes) :
       /\ proc[processes[k]].pc # "unstarted"
       /\ proc[processes[k]].rank = k - 1
  /\ \A p \in Slots :
       proc[p].pc # "unstarted" => \E k \in 1 .. Len(processes) : processes[k] = p
  /\ main.pc = "done" => \A k \in 1 .. Len(processes) : Terminated(processes[k])

\* main returned from a run of two processes that tore their group down
C6_Witness ==
  /\ main.pc = "done"
  /\ cfg.world_size = 2
  /\ \A p \in 0 .. 1 : proc[p].pc = "done"

\* --------------------------------------------- claims on AverageMeterDDP

(* C7: with no process group, after any updates since construction or the
   last reset, count is the number of those calls, sum[i] the sum of the
   values passed for slot i, val[i] the last value and avg[i] = sum[i] /
   count; after reset (and at construction) all four are zero. *)
C7_RunningMean ==
  (~ mcfg.active) =>
    \A p \in MeterProcs :
      /\ meter[p].count = mproc[p].n
      /\ meter[p].sum = mproc[p].psum
      /\ meter[p].val = mproc[p].last
      /\ \A i \in 1 .. mcfg.n_classes :
           meter[p].avg[i] =
             IF mproc[p].n = 0 THEN Frac(0, 1)
             ELSE Frac(mproc[p].psum[i], mproc[p].n)

\* after a reset, two updates whose values for slot 1 sum to 1: avg is 1/2
C7_Witness ==
  \E p \in MeterProcs :
    /\ ~ mcfg.active
    /\ mproc[p].resets = 1 /\ mproc[p].calls = 2 /\ mproc[p].n = 2
    /\ mcfg.n_classes = 2
    /\ mproc[p].psum[1] = 1 /\ mproc[p].psum[2] = 2
    /\ meter[p].avg[1] = << 1, 2 >>

\* the sum, for slot i, of every value passed on every process
PassedTotal(i) ==
  LET RECURSIVE T(_)
      T(S) == IF S = {} THEN 0
              ELSE LET q == CHOOSE x \in S : TRUE IN mproc[q].psum[i] + T(S \ { q })
  IN T(MeterProcs)

(* C8: with meters constructed on each of W processes of an active group,
   once every process has finished its k-th update (k >= 1, no reset), every
   process holds count = W*k and avg = (sum of the W*k values passed on all
   processes) / (W*k). *)
C8_GlobalMean ==
  mcfg.active =>
    \A k \in 1 .. MaxUpdates :
      (\A q \in MeterProcs :
         mproc[q].pc = "idle" /\ mproc[q].calls = k /\ mproc[q].resets = 0)
      => \A p \in MeterProcs :
           /\ meter[p].count = mcfg.world_size * k
           /\ \A i \in 1 .. mcfg.n_classes :
                meter[p].avg[i] = Frac(PassedTotal(i), mcfg.world_size * k)

\* two ranks finished two updates each; rank 0 passed 1 in all, rank 1
\* passed 2: both hold the global mean 3/4
C8_Witness ==
  /\ mcfg.active /\ mcfg.world_size = 2
  /\ \A q \in MeterProcs :
       mproc[q].pc = "idle" /\ mproc[q].calls = 2 /\ mproc[q].resets = 0
  /\ mproc[0].psum[1] = 1 /\ mproc[1].psum[1] = 2
  /\ meter[0].avg[1] = << 3, 4 >>

\* ----------------------------------- claims on DistributedWeightedSampler

(* C9: construction with replacement=False fails with an assertion; with
   replacement=True len(sampler) is the per-process sample count of the
   distributed sampler and an iteration yields that many indices, each one
   of the shard the distributed sampler gave this process. *)
C9_WeightedSampler ==
  /\ sampler.state = "built" => scfg.replacement
  /\ (sampler.state # "new" /\ ~ scfg.replacement) => sampler.state = "AssertionError"
  /\ sampler.state = "built" =>
       /\ SamplerLen = CeilDiv(scfg.n, scfg.num_replicas)
       /\ drawn.live =>
            /\ Len(drawn.out) = SamplerLen
            /\ \A j \in 1 .. Len(drawn.out) :
                 \E k \in 1 .. Len(drawn.shard) : drawn.out[j] = drawn.shard[k]

\* rank 1 of 2 over 3 items drew index 2 twice from its shard << 2, 1 >>
C9_Witness ==
  /\ sampler.state = "built" /\ drawn.live
  /\ scfg.n = 3 /\ scfg.num_replicas = 2 /\ scfg.rank = 1
  /\ drawn.shard = << 2, 1 >>
  /\ drawn.out = << 2, 2 >>

\* ------------------------------------------------ claims on t_loop_length

(* C10: t_loop_length on a video of L frames, 1 <= L < T, returns exactly
   T frames, frame k being original frame k mod L; on a video of T frames
   it returns the same frames, so a second application changes nothing. *)
C10_LoopLength ==
  (Len(ops) > 0 /\ (\A k \in 1 .. Len(ops) : ops[k] = "loop")
     /\ Len(orig) <= tcfg.target_length)
  => /\ Len(img) = tcfg.target_length
     /\ \A k \in 0 .. (tcfg.target_length - 1) :
          img[k + 1] = orig[(k % Len(orig)) + 1]

\* three frames looped to four, and looped again
C10_Witness ==
  /\ ops = << "loop", "loop" >>
  /\ orig = << 0, 128, 255 >>
  /\ tcfg.target_length = 4
  /\ img = << 0, 128, 255, 0 >>

\* ------------------------------------------- claims on t_crop, t_pad_length

\* the video went through exactly one transform, op
Only(op) == ops = << op >>

(* C11 as stated: t_crop on a sequence of length L > T with length
   cropping enabled returns the last T frames of the input, in order. *)
C11_CropKeepsTail ==
  (Only("crop") /\ tcfg.crop_length /\ Len(orig) > tcfg.target_length)
  => img = SubSeq(orig, Len(orig) - tcfg.target_length + 1, Len(orig))

(* C11 amended: t_crop on a sequence of length L > T with length cropping
   enabled removes exactly L-T frames from the end: the result is the
   first T frames of the input, in order. *)
C11_CropKeepsHead ==
  (Only("crop") /\ tcfg.crop_length /\ Len(orig) > tcfg.target_length)
  => /\ Len(orig) - Len(img) = Len(orig) - tcfg.target_length
     /\ img = SubSeq(orig, 1, tcfg.target_length)

\* three frames cropped to the first two
C11_Witness ==
  /\ Only("crop") /\ tcfg.crop_length
  /\ tcfg.target_length = 2
  /\ orig = << 0, 128, 255 >>
  /\ img = << 0, 128 >>

(* C12: with crop_length enabled t_crop keeps, in order, the first T
   frames of a sequence of length L > T and every frame of a sequence of
   length L <= T. *)
C12_CropFromEnd ==
  (Only("crop") /\ tcfg.crop_length)
  => /\ Len(img) = IF Len(orig) > tcfg.target_length
                     THEN tcfg.target_length ELSE Len(orig)
     /\ \A k \in 1 .. Len(img) : img[k] = orig[k]

\* three frames cropped to the first one
C12_Witness ==
  /\ Only("crop") /\ tcfg.crop_length
  /\ tcfg.target_length = 1
  /\ orig = << 255, 128, 0 >>
  /\ img = << 255 >>

(* C13: t_pad_length on a sequence of length L < T returns T frames, the
   first L being the original frames and the last T-L holding the
   configured black value; for L >= T it returns the input unchanged. *)
C13_PadWithBlack ==
  Only("pad")
  => IF Len(orig) < tcfg.target_length
       THEN /\ Len(img) = tcfg.target_length
            /\ SubSeq(img, 1, Len(orig)) = orig
            /\ \A k \in (Len(orig) + 1) .. tcfg.target_length :
                 img[k] = black_val(tcfg.normalize_input)
       ELSE img = orig

\* ------------------------------------------------ claims on t_crop_rwave

(* C14: t_crop_rwave returns a window of exactly target_fphb frames or
   raises "Cannot extend crop into correct shape", and raises only with
   start_frame = 0 and end_frame = video.shape[0]. *)
C14_RwaveWindowExact ==
  /\ rout.kind = "return" => Len(rout.frames) = rin.target_fphb
  /\ rout.kind = "ValueError" =>
       rout.start_frame = 0 /\ rout.end_frame = rin.length

(* C26: the indices of the final slice of t_crop_rwave satisfy
   0 <= start_frame <= end_frame <= L: after the boundary correction and
   the correction by one frame start_frame is never negative and end_frame
   never past the video. *)
C26_SliceIndices ==
  (rout.kind = "return" /\ rout.sliced)
  => /\ 0 <= rout.start_frame
     /\ rout.start_frame <= rout.end_frame
     /\ rout.end_frame <= rin.length

\* ------------------------------- claims on MultiStream, MultiStreamShared

(* C15: for both classes forward fails with an assertion when the number
   of inputs differs from the declared stream count, and for a matching
   count returns an output of shape (batch, 1). *)
C15_ForwardShape ==
  fout.kind # "not called"
  => IF fin.n_inputs # net.num_models
       THEN fout.kind = "AssertionError"
       ELSE fout.kind = "return" /\ fout.shape = << fin.batch, 1 >>

\* ---------------------------------------------- claims on transform_size

\* grayscale, every rescale/resize flag, crop, r-wave crop, loop and pad
\* are disabled
AllSizeFlagsOff ==
  \A k \in DOMAIN zin.flags : ~ zin.flags[k]

TargetShape ==
  << zin.target_length, zin.target_size[1], zin.target_size[2], zin.shape[4] >>

(* C16: with every size transform disabled transform_size returns its
   input unchanged when the input shape is (target_length, target_height,
   target_width, C) and raises the shape-validation ValueError for every
   other input shape. *)
C16_IdentityOrShapeError ==
  (zout.kind # "running" /\ AllSizeFlagsOff)
  => IF zin.shape = TargetShape
       THEN zout.kind = "return" /\ zout.shape = zin.shape /\ ~ zout.copied
       ELSE zout.kind = "ValueError" /\ zout.line = 179

\* a video of the target length with frames of the wrong size is refused
C16_Witness ==
  /\ AllSizeFlagsOff
  /\ zin.shape = << 2, 2, 1, 3 >> /\ zin.target_length = 2
  /\ zout.kind = "ValueError"

(* C17: transform_size fails with an assertion whenever crop_length and
   rwave_data_only are both enabled, whatever loop_length and the other
   flags are. *)
C17_CropsExclusive ==
  (zout.kind # "running" /\ zin.flags.crop_length /\ zin.flags.rwave_data_only)
  => zout.kind = "AssertionError"

(* C27: whenever rwave_data_only is enabled, transform_size has computed
   curr_fphb before line 168 uses it for the fps of the r-wave crop, for
   every combination of rescale_fps, rescale_fphb, resize_frames and every
   fps. *)
C27_CurrFphbComputed ==
  zin.flags.rwave_data_only
  => ~ (zout.kind = "UnboundLocalError" /\ zout.line = 168)

(* C19: the checkpoint filename is checkpoint_save_path, model name, "_",
   data type, "_", view name and then "_exp_<run id>.pth" with logging
   enabled, "_test.pth" with logging disabled; every validation epoch of a
   run computes the same name. *)
C19_CheckpointName ==
  \A p \in Slots :
    /\ Cardinality(proc[p].names) <= 1
    /\ Len(proc[p].val_log) > 0 => proc[p].names # {}
    /\ \A n \in proc[p].names :
         /\ SubSeq(n, 1, 6) = << checkpoint_save_path, model_name, "_",
                                 data_type, "_", data_name >>
         /\ SubSeq(n, 7, Len(n)) =
              IF cfg.logging_enabled
                THEN << "_exp_", proc[p].run_id, ".pth" >>
                ELSE << "_test", ".pth" >>

\* the master validated epochs 0 and 10 of a logged run
C19_Witness ==
  \E p \in Slots :
    /\ cfg.logging_enabled
    /\ Len(proc[p].val_log) = 2
    /\ proc[p].val_log[2].epoch = ValEvery
    /\ proc[p].run_id = 1
    /\ proc[p].names = { << "checkpoints/", "resnet", "_", "img", "_", "plax",
                            "_exp_", 1, ".pth" >> }

\* -------------------------------------------------- claims on NPYDataset

\* the name starts with the identifier
StartsWith(name, uid) ==
  Len(uid) <= Len(name) /\ \A k \in 1 .. Len(uid) : name[k] = uid[k]

\* the file index holds the identifier of every row of the target table
EveryRowHasFile ==
  \A r \in 1 .. Len(dstab) :
    \E k \in 1 .. Len(dsin.listing) : StartsWith(dsin.listing[k], dstab[r].us_id)

(* C18: for a target table of n rows whose identifiers all have a file,
   len(dataset) is n and dataset[i], 0 <= i < n, returns the transform of
   the array in the file mapped to row i's identifier with row i's
   target. *)
C18_DatasetItems ==
  (ds.built /\ EveryRowHasFile)
  => /\ got.kind = "len" => got.value = Len(dstab)
     /\ (got.kind \notin { "none", "len" } /\ got.index < Len(dstab))
        => /\ got.kind = "return"
           /\ got.value[2] = dstab[got.index + 1].target
           /\ LET k == got.value[1].transform_of
              IN /\ StartsWith(dsin.listing[k], dstab[got.index + 1].us_id)
                 /\ ds.img_dict[dstab[got.index + 1].us_id] = k

\* the second row is fetched: its file is the first one listed
C18_Witness ==
  /\ ds.built /\ EveryRowHasFile
  /\ dsin.uid_len = 1
  /\ dsin.listing = << << "b", "a" >>, << "a", "a" >> >>
  /\ Len(dstab) = 2 /\ dstab[2].us_id = << "b" >> /\ dstab[2].target = 1
  /\ got.kind = "return" /\ got.index = 1
  /\ got.value = << [ transform_of |-> 1 ], 1 >>

\* ------------------------------------------- claims on transform_values

(* C20: transform_values leaves the array passed to it unchanged for every
   combination of flags: the result is a new array and the caller's array
   holds after the call the values it held before. *)
C20_InputUnchanged ==
  vout.kind = "return" => (~ vout.img.shared /\ vout.caller = vin.video)

\* ---------------------------------------------------- claims on new_length

(* C22: the length passed to the resize is floor(L * target_fps / fps) when
   rescale_fps is enabled and target_fps differs from fps; max(target_fphb,
   ceil(L * target_fphb / curr_fphb)) when rescale_fphb is enabled, curr_fphb
   being fps / (hr / 60) or fps * (seconds of the cycle); L otherwise. *)
C22_NewLength ==
  wout.kind = "resized" =>
    wout.resized =
      IF win.rescale_fps /\ win.target_fps # win.fps
        THEN (win.length * win.target_fps) \div win.fps
      ELSE IF win.rescale_fphb
        THEN LET n == IF win.rwave_data_only
                        THEN CeilDiv(win.length * win.target_fphb * MsPerSecond,
                                     win.fps * win.gap)
                        ELSE CeilDiv(win.length * win.target_fphb * win.hr,
                                     60 * win.fps)
             IN IF n < win.target_fphb THEN win.target_fphb ELSE n
      ELSE win.length

\* ------------------------------------------------ claims on train_and_val

(* C24: train_and_val calls a collective or process-group operation only
   when a process group is initialized: with ddp disabled, for both values
   of use_scheduler, the epoch loop and the teardown complete without any
   call that requires a group. *)
C24_NoGroupNoGroupCalls ==
  ~ cfg.ddp => \A p \in Slots : proc[p].pc # "failed"

\* the loss validator.validate returned in epoch e on process p
LossOfEpoch(p, e) ==
  LET log == proc[p].val_log
  IN { log[j].loss : j \in { n \in 1 .. Len(log) : log[n].epoch = e } }

\* the epoch of the last validation at or before epoch i
LastValidationEpoch(i) == ValEvery * (i \div ValEvery)

(* C25: on the master val_loss_mean is assigned (by the validation of
   epoch 0) before the scheduler step first reads it, and in every epoch i
   the value the master broadcasts, which every process passes to
   scheduler.step, is the validation loss of epoch 10 * floor(i / 10). *)
C25_SchedulerGetsLastValidation ==
  \A p \in Slots :
    (proc[p].pc # "unstarted" /\ MasterProcess(p) /\ cfg.use_scheduler)
    => /\ ~ (proc[p].pc = "failed" /\ proc[p].initialized)
       /\ proc[p].val_loss_tensor # None
            => /\ proc[p].val_loss_mean # None
               /\ LossOfEpoch(p, 0) # {}
       /\ cfg.ddp =>
            /\ \A k \in 1 .. Len(sent) :
                 LossOfEpoch(p, LastValidationEpoch(k - 1)) = { sent[k] }
            /\ \A q \in Slots : \A k \in 1 .. Len(proc[q].sched) :
                 LossOfEpoch(p, LastValidationEpoch(k - 1)) = { proc[q].sched[k] }

\* a group of two went through eleven epochs: the master validated with
\* loss 1 in epoch 0 and loss 0 in epoch 10, epochs 0 to 9 stepped the
\* scheduler of rank 1 with 1 and epoch 10 with 0
C25_Witness ==
  \E p, q \in Slots :
    /\ cfg.ddp /\ cfg.use_scheduler
    /\ proc[p].rank = 0 /\ proc[q].rank = 1
    /\ Len(proc[p].val_log) = 2
    /\ proc[p].val_log[1].loss = 1 /\ proc[p].val_log[2].loss = 0
    /\ Len(proc[q].sched) = 11
    /\ proc[q].sched[10] = 1 /\ proc[q].sched[11] = 0

\* ------------------------------------- claims on the collectives of a run

\* rank p waits in a collective that a rank which left the group never
\* entered, or in one that never returns
Stranded(p) ==
  \/ cproc[p].pc = "hung"
  \/ /\ cproc[p].pc \in { "update_barrier", "all_reduce", "barrier", "bcast" }
     /\ \E q \in Ranks : /\ cproc[q].pc = "done"
                         /\ Len(cproc[q].issued) < Len(cproc[p].issued)

(* C21: in a run of a group of at least two ranks in which no process
   fails and the master-only validation pass keeps its metrics in the
   tracker of 4.5, the k-th collective of every rank is the same operation
   as the k-th collective of every other rank, and no rank is left waiting
   in a collective: every rank reaches the teardown. *)
C21_CollectivesMatch ==
  /\ \A p, q \in Ranks :
       \A k \in 1 .. Len(cproc[p].issued) :
         k <= Len(cproc[q].issued) => cproc[q].issued[k] = cproc[p].issued[k]
  /\ \A p \in Ranks : ~ Stranded(p)

\* --------------------------------------- claims on a failing worker

Failed(p) == proc[p].pc = "failed"

\* the collectives process q has returned from
Completed(q) ==
  IF proc[q].pc \in { "barrier", "bcast" } THEN proc[q].ncoll - 1 ELSE proc[q].ncoll

\* process p failed with a collective of the run still ahead of it: before
\* the end-of-epoch barrier of its last epoch
FailedEarly(p) == Failed(p) /\ proc[p].i < cfg.epochs

\* process q waits in init_process_group or in a collective
Blocked(q) == proc[q].pc \in { "init_wait", "barrier", "bcast" }

(* C23 as stated: if one worker process ends with an uncaught error in a
   distributed run, no other worker is ended by it, every surviving worker
   blocks for ever at its next collective, and main's join on the
   survivors never returns. *)
C23_SurvivorsNeverFinish ==
  (\E p \in Slots : Failed(p))
  => /\ Cardinality({ p \in Slots : Failed(p) }) = 1
     /\ main.pc # "done"
     /\ \A q \in Slots : proc[q].pc # "done"

(* C23 amended: if one worker process ends with an uncaught error in a
   distributed run, no other worker is ended by it; a surviving worker
   never returns from a collective the failed worker did not enter; when
   the failed worker had a collective still ahead of it, no survivor
   finishes, main's join never returns, and every survivor comes to wait in
   init_process_group or a collective and waits there for ever. *)
C23_SurvivorsBlockAtUnmatched ==
  /\ [](\A p \in Slots :
          Failed(p)
          => /\ Cardinality({ q \in Slots : Failed(q) }) = 1
             /\ \A q \in Slots : Completed(q) <= proc[p].ncoll
             /\ FailedEarly(p)
                  => /\ main.pc # "done"
                     /\ \A q \in Slots : proc[q].pc # "done")
  /\ \A p \in Slots :
       FailedEarly(p)
       ~> [](\A q \in Slots :
               (q < cfg.world_size /\ q # p) => Blocked(q))

\* rank 1 of two failed in train_epoch of the second epoch; the master
\* waits in the barrier of that epoch and main in join
C23_Witness ==
  \E p, q \in Slots :
    /\ cfg.epochs = 2
    /\ proc[p].rank = 1 /\ Failed(p) /\ proc[p].i = 1 /\ proc[p].ncoll > 0
    /\ proc[q].rank = 0 /\ proc[q].pc = "barrier" /\ proc[q].i = 1
    /\ main.pc = "join"

\* ------------------------------------------------------- specifications

vars == << cfg, main, processes, proc, pg_joined, bcast_val, ckpt_dir, sent,
          mcfg, meter, mproc, reduce_in, scfg, sampler, drawn,
          tcfg, dtype, orig, img, ops, rin, rout,
          net, fin, fout,
          zin, zout,
          dsin, dstab, ds, got,
          vin, vout,
          win, wout,
          ccfg, cproc >>

\* main and train_and_val
Init ==
  /\ TrainInit
  /\ MeterIdle /\ SamplerIdle /\ TransformIdle /\ RwaveIdle /\ StreamIdle
  /\ SizeIdle /\ DatasetIdle /\ ValuesIdle /\ LengthIdle /\ CollectiveIdle

Next == TrainNext

Spec == Init /\ [][Next]_vars

\* AverageMeterDDP
InitMeter ==
  /\ MeterInit
  /\ TrainIdle /\ SamplerIdle /\ TransformIdle /\ RwaveIdle /\ StreamIdle
  /\ SizeIdle /\ DatasetIdle /\ ValuesIdle /\ LengthIdle /\ CollectiveIdle

NextMeter == MeterNext

SpecMeter == InitMeter /\ [][NextMeter]_vars

\* DistributedWeightedSampler
InitSampler ==
  /\ SamplerInit
  /\ TrainIdle /\ MeterIdle /\ TransformIdle /\ RwaveIdle /\ StreamIdle
  /\ SizeIdle /\ DatasetIdle /\ ValuesIdle /\ LengthIdle /\ CollectiveIdle

NextSampler == SamplerNext

SpecSampler == InitSampler /\ [][NextSampler]_vars

\* the sequence-length transforms of DataAugmentations
InitTransform ==
  /\ TransformInit
  /\ TrainIdle /\ MeterIdle /\ SamplerIdle /\ RwaveIdle /\ StreamIdle
  /\ SizeIdle /\ DatasetIdle /\ ValuesIdle /\ LengthIdle /\ CollectiveIdle

NextTransform == TransformNext

SpecTransform == InitTransform /\ [][NextTransform]_vars

\* t_crop_rwave
InitRwave ==
  /\ RwaveInit
  /\ TrainIdle /\ MeterIdle /\ SamplerIdle /\ TransformIdle /\ StreamIdle
  /\ SizeIdle /\ DatasetIdle /\ ValuesIdle /\ LengthIdle /\ CollectiveIdle

NextRwave == RwaveNext

SpecRwave == InitRwave /\ [][NextRwave]_vars

\* MultiStream and MultiStreamShared
InitStream ==
  /\ StreamInit
  /\ TrainIdle /\ MeterIdle /\ SamplerIdle /\ TransformIdle /\ RwaveIdle
  /\ SizeIdle /\ DatasetIdle /\ ValuesIdle /\ LengthIdle /\ CollectiveIdle

NextStream == StreamNext

SpecStream == InitStream /\ [][NextStream]_vars

\* transform_size
InitSize ==
  /\ SizeInit
  /\ TrainIdle /\ MeterIdle /\ SamplerIdle /\ TransformIdle /\ RwaveIdle
  /\ StreamIdle /\ DatasetIdle /\ ValuesIdle /\ LengthIdle /\ CollectiveIdle

NextSize == SizeNext

SpecSize == InitSize /\ [][NextSize]_vars

\* NPYDataset
InitDataset ==
  /\ DatasetInit
  /\ TrainIdle /\ MeterIdle /\ SamplerIdle /\ TransformIdle /\ RwaveIdle
  /\ StreamIdle /\ SizeIdle /\ ValuesIdle /\ LengthIdle /\ CollectiveIdle

NextDataset == DatasetNext

SpecDataset == InitDataset /\ [][NextDataset]_vars

\* transform_values
InitValues ==
  /\ ValuesInit
  /\ TrainIdle /\ MeterIdle /\ SamplerIdle /\ TransformIdle /\ RwaveIdle
  /\ StreamIdle /\ SizeIdle /\ DatasetIdle /\ LengthIdle /\ CollectiveIdle

NextValues == ValuesNext

SpecValues == InitValues /\ [][NextValues]_vars

\* new_length
InitLength ==
  /\ LengthInit
  /\ TrainIdle /\ MeterIdle /\ SamplerIdle /\ TransformIdle /\ RwaveIdle
  /\ StreamIdle /\ SizeIdle /\ DatasetIdle /\ ValuesIdle /\ CollectiveIdle

NextLength == LengthNext

SpecLength == InitLength /\ [][NextLength]_vars

\* the collectives of a run with trackers in the validation pass
InitCollective ==
  /\ CollectiveInit
  /\ TrainIdle /\ MeterIdle /\ SamplerIdle /\ TransformIdle /\ RwaveIdle
  /\ StreamIdle /\ SizeIdle /\ DatasetIdle /\ ValuesIdle /\ LengthIdle

NextCollective == CollectiveNext

SpecCollective == InitCollective /\ [][NextCollective]_vars

\* main and train_and_val with a worker that may fail; every process that
\* can take a step takes one
InitCrash ==
  /\ CrashInit
  /\ MeterIdle /\ SamplerIdle /\ TransformIdle /\ RwaveIdle /\ StreamIdle
  /\ SizeIdle /\ DatasetIdle /\ ValuesIdle /\ LengthIdle /\ CollectiveIdle

WorkerStep(p) ==
  \/ InitDistributedMode(p)
  \/ InitProcessGroupReturns(p)
  \/ Setup(p)
  \/ TrainStart(p)
  \/ TrainEnd(p)
  \/ Validate(p)
  \/ BarrierReturns(p)
  \/ BroadcastReturns(p)
  \/ Cleanup(p)

MainStep == CreateDataSets \/ Spawn \/ SpawnDone \/ Join \/ MainReturn

NextCrash ==
  \/ TrainNext
  \/ \E p \in Slots : Crash(p)

SpecCrash ==
  /\ InitCrash
  /\ [][NextCrash]_vars
  /\ WF_vars(MainStep)
  /\ \A p \in Slots : WF_vars(WorkerStep(p))

====
